---- MODULE Spec2Model ----
(***************************************************************************)
(* A model of the variant scripts of the theme repository.                 *)
(*                                                                         *)
(* Spec: the CSV-driven variant import (import-variants.js): the batch    *)
(* loop of importVariants, the per-row work of processBatch and            *)
(* updateVariantMetafields, the requests they put on the network and the   *)
(* answers the network may give.                                           *)
(* SpecExport: the export (export-variants.js) from its two queries to the *)
(* CSV file.  SpecCodec: arrayToCSV of the export followed by parseCSV of  *)
(* the import.  SpecFile: the import from the text of its input file.      *)
(* SpecCli: parseArgs and validateConfig of the three scripts.             *)
(*                                                                         *)
(* Strings whose characters matter (column names, CSV text) are handled as *)
(* sequences of one-character strings, so that startsWith, replace, split, *)
(* join and trim are computed as the code computes them.                   *)
(***************************************************************************)
EXTENDS Integers, Sequences, FiniteSets, TLC

\* ------------------------------------------------------------------ bounds

\* The longest parsed row sequence of a run.
MaxRows == 3

\* The largest --batch-size of a run.
MaxBatchSize == 3

\* ----------------------------------------------------------------- strings

Min(a, b) == IF a < b THEN a ELSE b

Max(a, b) == IF a > b THEN a ELSE b

\* String.prototype.startsWith
StartsWith(s, p) == Len(s) >= Len(p) /\ SubSeq(s, 1, Len(p)) = p

\* The first index at which p occurs in s, 0 when it does not occur.
IndexOf(s, p) ==
  LET at == {n \in 1..(Len(s) - Len(p) + 1) : SubSeq(s, n, n + Len(p) - 1) = p}
  IN IF at = {} THEN 0 ELSE CHOOSE n \in at : \A m \in at : n <= m

\* String.prototype.replace(p, r) with a string pattern: the first
\* occurrence only.
Replace(s, p, r) ==
  LET n == IndexOf(s, p)
  IN IF n = 0 THEN s
     ELSE SubSeq(s, 1, n - 1) \o r \o SubSeq(s, n + Len(p), Len(s))

\* String.prototype.split(c) for a one-character separator c.
RECURSIVE Split(_, _)
Split(s, c) ==
  LET n == IndexOf(s, <<c>>)
  IN IF n = 0 THEN <<s>>
     ELSE <<SubSeq(s, 1, n - 1)>> \o Split(SubSeq(s, n + 1, Len(s)), c)

\* Array.prototype.join(c) for a one-character separator c.
RECURSIVE Join(_, _)
Join(parts, c) ==
  IF Len(parts) = 0 THEN <<>>
  ELSE IF Len(parts) = 1 THEN parts[1]
  ELSE parts[1] \o <<c>> \o Join(Tail(parts), c)

\* Slice with the end index taken as the last element's index.
Slice_InclusiveEnd(arr, from, to) ==
  LET len == Len(arr)
      rel(n) == IF n < 0 THEN Max(len + n, 0) ELSE Min(n, len)
  IN SubSeq(arr, rel(from) + 1, Min(rel(to) + 1, len))

\* Array.prototype.slice(from, to) on integers: a negative index counts from
\* the end, both are clamped to the array.  The result holds the elements
\* with 0-based index from..to-1.
Slice(arr, from, to) ==
  LET len == Len(arr)
      rel(n) == IF n < 0 THEN Max(len + n, 0) ELSE Min(n, len)
  IN SubSeq(arr, rel(from) + 1, rel(to))

\* The literal "metafield_" of extractMetafields.
MetafieldPrefix == <<"m", "e", "t", "a", "f", "i", "e", "l", "d", "_">>

\* ------------------------------------------------------------ CSV rows

\* Column names of the input file.  The first two metafield columns are what
\* the export writes (metafield_{namespace}_{key}); the third has no key
\* part.
ColVariantId == <<"v", "a", "r", "i", "a", "n", "t", "_", "i", "d">>

ColVariantTitle ==
  <<"v", "a", "r", "i", "a", "n", "t", "_", "t", "i", "t", "l", "e">>

ColPopular == MetafieldPrefix \o
  <<"c", "u", "s", "t", "o", "m", "_", "p", "o", "p", "u", "l", "a", "r">>

ColSubtitle == MetafieldPrefix \o
  <<"c", "u", "s", "t", "o", "m", "_", "n", "i", "e", "l", "s", "e", "n",
    "_", "s", "u", "b">>

ColNoKey == MetafieldPrefix \o <<"n", "o", "t", "e">>

\* The cells a data line may hold in its three metafield columns: nothing,
\* two metafields, or a value in the column without a key part only.
CellChoices == { <<"", "", "">>, <<"true", "Oak", "">>, <<"", "", "x">> }

\* A row object of parseCSV: its keys in header order, each with its value.
\* Variant ids are unique within a file (the export writes one line per
\* variant).
Row(n, cells) ==
  << [key |-> ColVariantId, value |-> "gid-" \o ToString(n)],
     [key |-> ColVariantTitle, value |-> "Frame"],
     [key |-> ColPopular, value |-> cells[1]],
     [key |-> ColSubtitle, value |-> cells[2]],
     [key |-> ColNoKey, value |-> cells[3]] >>

\* row[key]: the value of a column, "undefined" when the row has no such key.
Get(row, key) ==
  LET at == {n \in DOMAIN row : row[n].key = key}
  IN IF at = {} THEN "undefined" ELSE row[CHOOSE n \in at : TRUE].value

\* The row sequences parseCSV may return (none when every data line was
\* dropped).
RowSeqs ==
  UNION { { [n \in 1..len |-> Row(n, c[n])] : c \in [1..len -> CellChoices] }
          : len \in 0..MaxRows }

\* ------------------------------------------------------------- the state

VARIABLES
  config,        \* config.dryRun, config.batchSize (set by parseArgs)
  variants,      \* the rows parseCSV returned
  pc,            \* where importVariants stands
  i,             \* the batch loop's index into variants
  batch,         \* the slice processBatch is working on
  pos,           \* processBatch's position in batch (1-based)
  results,       \* processBatch's results
  totalResults,  \* importVariants' totals
  requests,      \* every makeGraphQLRequest call of the run, with its answer
  sleeps,        \* the setTimeout pauses started so far
  batches,       \* every slice handed to processBatch so far
  console,       \* the per-row lines written to the console
  prior,         \* what an earlier run on the same file showed
  input,         \* the file --input names: whether it exists, its text
  exitCode,      \* the exit code of the process, "none" while it runs
  artifact,      \* the results files written: none, or the one of the run
  xconfig,       \* the export's config.productId, config.includeAllMetafields
  shop,          \* the shop's data: metafield definitions and products
  xpc,           \* where exportVariants stands
  xrequests,     \* every makeGraphQLRequest call of the export, with its answer
  allMetafieldKeys,  \* exportVariants' column names of the definitions
  allVariants,   \* exportVariants' records
  output,        \* the CSV files written: none, or the text of the one
  cli,           \* a command line run: its arguments, its config, its end
  tpl,           \* a template update run against the shop's products
  titles,        \* a row of process-variant-titles, before and after
  picker         \* a product page: its size buttons and the form's id input

\* The export's variables.
exportVars ==
  << xconfig, shop, xpc, xrequests, allMetafieldKeys, allVariants, output >>

\* The import run's own variables.
importVars ==
  << config, variants, pc, i, batch, pos, results, totalResults, requests,
     sleeps, batches, console, prior >>

\* The input file, the process's exit code and the results file.
fileVars == << input, exitCode, artifact >>

\* A command line run.
cliVars == << cli >>

\* The template update, the title processing and the product page.
toolVars == << tpl, titles, picker >>

\* The variables of the other commands.
others == << exportVars, cliVars, toolVars >>

vars == << importVars, fileVars, others >>

\* The input file of a run whose rows are given as parsed.
NoFile == [exists |-> TRUE, content |-> ""]

\* The export's variables while another command runs.
ExportIdle ==
  /\ xconfig = [productId |-> FALSE, includeAllMetafields |-> FALSE]
  /\ shop = [definitions |-> <<>>, products |-> <<>>]
  /\ xpc = "idle"
  /\ xrequests = <<>>
  /\ allMetafieldKeys = <<>>
  /\ allVariants = <<>>
  /\ output = <<>>

\* No command line run is looked at.
CliIdle == cli = [pc |-> "idle"]

\* No template update runs, no title is processed, no page is shown.
ToolsIdle ==
  /\ tpl = [pc |-> "idle"]
  /\ titles = [pc |-> "idle"]
  /\ picker = [pc |-> "idle"]

\* No earlier run.
NoRun == [ran |-> FALSE]

\* The results object importVariants and processBatch start from.
EmptyResults == [success |-> 0, failed |-> 0, skipped |-> 0, details |-> <<>>]

\* The requests that have been sent and not yet answered.
InFlight == {n \in DOMAIN requests : requests[n].answer = "pending"}

\* What the network may answer to the parent lookup: a variant with its
\* product, no such variant, or a failure (GraphQL errors, transport).
LookupAnswers == {"product", "noProduct", "error"}

\* What the network may answer to the mutation: success, userErrors, or a
\* rate-limit rejection (GraphQL errors: Throttled), which makeGraphQLRequest
\* rejects as it rejects every other errors answer and transport failure.
MutationAnswers == {"ok", "userErrors", "throttled"}

\* ------------------------------------------------------ extractMetafields

\* MetafieldOf without the test of the cell's value.
MetafieldOf_NoValueCheck(entry) ==
  IF StartsWith(entry.key, MetafieldPrefix)
  THEN LET parts == Split(Replace(entry.key, MetafieldPrefix, <<>>), "_")
       IN IF Len(parts) >= 2
          THEN << [namespace |-> parts[1],
                   key |-> Join(Tail(parts), "_"),
                   value |-> entry.value,
                   type |-> "single_line_text_field"] >>
          ELSE <<>>
  ELSE <<>>

\* The metafield a column contributes, as a sequence of zero or one entry.
MetafieldOf(entry) ==
  IF StartsWith(entry.key, MetafieldPrefix) /\ entry.value # ""
  THEN LET parts == Split(Replace(entry.key, MetafieldPrefix, <<>>), "_")
       IN IF Len(parts) >= 2
          THEN << [namespace |-> parts[1],
                   key |-> Join(Tail(parts), "_"),
                   value |-> entry.value,
                   type |-> "single_line_text_field"] >>
          ELSE <<>>
  ELSE <<>>

RECURSIVE extractFrom(_, _)
extractFrom(row, n) ==
  IF n > Len(row) THEN <<>>
  ELSE MetafieldOf(row[n]) \o extractFrom(row, n + 1)

extractMetafields(row) == extractFrom(row, 1)

\* ------------------------------------------------ updateVariantMetafields

\* The three return values of updateVariantMetafields: one result per
\* metafield.
DryRunResults(mfs) ==
  [n \in DOMAIN mfs |->
    [success |-> TRUE, metafield |-> mfs[n], note |-> "dry-run"]]

SuccessResults(mfs) ==
  [n \in DOMAIN mfs |->
    [success |-> TRUE, metafield |-> mfs[n], note |-> "response"]]

FailureResults(mfs, message) ==
  [n \in DOMAIN mfs |->
    [success |-> FALSE, metafield |-> mfs[n], note |-> message]]

\* The message of the error a failed mutation raises.
MutationError(answer) ==
  IF answer = "userErrors" THEN "GraphQL errors: userErrors"
  ELSE "GraphQL errors: Throttled"

\* ------------------------------------------------------------ processBatch

\* The row processBatch is at, its id and its metafields.
variant == batch[pos]

variantId == Get(variant, ColVariantId)

metafields == extractMetafields(variant)

\* A line of the console about the row at hand.
Say(what) == Append(console, [what |-> what, variantId |-> variantId])

\* Counted with the detail pushed for a row without failures only.
Counted_DetailOnSuccess(metafieldResults) ==
  LET failCount == Cardinality({n \in DOMAIN metafieldResults :
                                  ~metafieldResults[n].success})
      detail == [variantId |-> variantId,
                 variantTitle |-> Get(variant, ColVariantTitle),
                 metafieldResults |-> metafieldResults]
  IN [results EXCEPT
        !.success = IF failCount = 0 THEN @ + 1 ELSE @,
        !.failed = IF failCount = 0 THEN @ ELSE @ + 1,
        !.details = IF failCount = 0 THEN Append(@, detail) ELSE @]

\* processBatch with the results of updateVariantMetafields in hand: count
\* the row, push its detail, go on to the next row.  (The catch of
\* processBatch, lines 393-404, is never entered: updateVariantMetafields
\* catches every error of its requests and returns failure results.)
Counted(metafieldResults) ==
  LET failCount == Cardinality({n \in DOMAIN metafieldResults :
                                  ~metafieldResults[n].success})
      detail == [variantId |-> variantId,
                 variantTitle |-> Get(variant, ColVariantTitle),
                 metafieldResults |-> metafieldResults]
  IN [results EXCEPT
        !.success = IF failCount = 0 THEN @ + 1 ELSE @,
        !.failed = IF failCount = 0 THEN @ ELSE @ + 1,
        !.details = Append(@, detail)]

\* SkipVariant with the dry-run report ahead of the test for metafields: a
\* dry run reports a row without metafields as a success.
SkipVariant_DryRunReportsAll ==
  /\ pc = "row"
  /\ pos <= Len(batch)
  /\ Len(metafields) = 0
  /\ IF config.dryRun
     THEN /\ results' = Counted(DryRunResults(metafields))
          /\ console' = Say("would update")
     ELSE /\ results' = [results EXCEPT !.skipped = @ + 1]
          /\ console' = Say("skip")
  /\ pos' = pos + 1
  /\ UNCHANGED << config, variants, pc, i, batch, totalResults, requests,
                  sleeps, batches, prior, fileVars, others >>

\* A row without metafields (lines 358-364): counted as skipped, no detail.
SkipVariant ==
  /\ pc = "row"
  /\ pos <= Len(batch)
  /\ Len(metafields) = 0
  /\ results' = [results EXCEPT !.skipped = @ + 1]
  /\ console' = Say("skip")
  /\ pos' = pos + 1
  /\ UNCHANGED << config, variants, pc, i, batch, totalResults, requests,
                  sleeps, batches, prior, fileVars, others >>

\* A row with metafields in dry-run mode (lines 209-221, 375-392):
\* updateVariantMetafields returns without a request.
DryRunUpdate ==
  /\ pc = "row"
  /\ pos <= Len(batch)
  /\ Len(metafields) # 0
  /\ config.dryRun
  /\ results' = Counted(DryRunResults(metafields))
  /\ console' = Say("would update")
  /\ pos' = pos + 1
  /\ UNCHANGED << config, variants, pc, i, batch, totalResults, requests,
                  sleeps, batches, prior, fileVars, others >>

\* IssueLookup without the dry-run test in front of it.
IssueLookup_IgnoresDryRun ==
  /\ pc = "row"
  /\ pos <= Len(batch)
  /\ Len(metafields) # 0
  /\ requests' = Append(requests, [op |-> "getVariant",
                                   variantId |-> variantId,
                                   metafields |-> <<>>,
                                   answer |-> "pending"])
  /\ console' = Say("processing")
  /\ pc' = "awaitLookup"
  /\ UNCHANGED << config, variants, i, batch, pos, results, totalResults,
                  sleeps, batches, prior, fileVars, others >>

\* IssueLookup without the await: the lookup is sent and processBatch goes on
\* to the next row at once.
IssueLookup_NoAwait ==
  /\ pc = "row"
  /\ pos <= Len(batch)
  /\ Len(metafields) # 0
  /\ ~config.dryRun
  /\ requests' = Append(requests, [op |-> "getVariant",
                                   variantId |-> variantId,
                                   metafields |-> <<>>,
                                   answer |-> "pending"])
  /\ console' = Say("processing")
  /\ pos' = pos + 1
  /\ UNCHANGED << config, variants, pc, i, batch, results, totalResults,
                  sleeps, batches, prior, fileVars, others >>

\* A row with metafields in live mode (lines 224, 296-309): the parent
\* lookup is sent and awaited.
IssueLookup ==
  /\ pc = "row"
  /\ pos <= Len(batch)
  /\ Len(metafields) # 0
  /\ ~config.dryRun
  /\ requests' = Append(requests, [op |-> "getVariant",
                                   variantId |-> variantId,
                                   metafields |-> <<>>,
                                   answer |-> "pending"])
  /\ console' = Say("processing")
  /\ pc' = "awaitLookup"
  /\ UNCHANGED << config, variants, i, batch, pos, results, totalResults,
                  sleeps, batches, prior, fileVars, others >>

\* LookupResponse without the test of the product id: the mutation is sent
\* whatever the lookup returned.
LookupResponse_NoProductCheck ==
  /\ pc = "awaitLookup"
  /\ \E answer \in LookupAnswers :
       requests' = Append([requests EXCEPT ![Len(requests)].answer = answer],
                          [op |-> "productVariantsBulkUpdate",
                           variantId |-> variantId,
                           metafields |-> metafields,
                           answer |-> "pending"])
  /\ pc' = "awaitMutation"
  /\ UNCHANGED << config, variants, i, batch, pos, results, totalResults,
                  sleeps, batches, console, prior, fileVars, others >>

\* The lookup's answer arrives (lines 309-317, 224-270).  With a product id
\* the mutation is sent and awaited; without one (no such variant, or the
\* lookup failed and getProductIdFromVariantId returned null) the row fails
\* (lines 225-227, 282-292, 375-392).
LookupResponse ==
  /\ pc = "awaitLookup"
  /\ \E answer \in LookupAnswers :
       LET answered == [requests EXCEPT ![Len(requests)].answer = answer]
       IN IF answer = "product"
          THEN /\ requests' = Append(answered, [op |-> "productVariantsBulkUpdate",
                                                variantId |-> variantId,
                                                metafields |-> metafields,
                                                answer |-> "pending"])
               /\ pc' = "awaitMutation"
               /\ UNCHANGED << results, pos, console >>
          ELSE /\ requests' = answered
               /\ results' = Counted(FailureResults(metafields,
                                                    "Could not find product"))
               /\ console' = Say("failed")
               /\ pos' = pos + 1
               /\ pc' = "row"
  /\ UNCHANGED << config, variants, i, batch, totalResults, sleeps, batches,
                  prior, fileVars, others >>

\* MutationResponse with a failure that escapes processBatch: the error
\* reaches importVariants, which ends the run.
MutationResponse_AbortsRun ==
  /\ pc = "awaitMutation"
  /\ \E answer \in MutationAnswers :
       /\ requests' = [requests EXCEPT ![Len(requests)].answer = answer]
       /\ IF answer = "ok"
          THEN /\ results' = Counted(SuccessResults(metafields))
               /\ console' = Say("updated")
               /\ pos' = pos + 1
               /\ pc' = "row"
          ELSE /\ pc' = "done"
               /\ UNCHANGED << results, console, pos >>
  /\ UNCHANGED << config, variants, i, batch, totalResults, sleeps, batches,
                  prior, fileVars, others >>

\* The mutation's answer arrives (lines 270-292, 375-392): the row succeeds,
\* or fails with the error's message; either way processBatch goes on.
MutationResponse ==
  /\ pc = "awaitMutation"
  /\ \E answer \in MutationAnswers :
       /\ requests' = [requests EXCEPT ![Len(requests)].answer = answer]
       /\ results' = Counted(IF answer = "ok"
                             THEN SuccessResults(metafields)
                             ELSE FailureResults(metafields,
                                                 MutationError(answer)))
       /\ console' = Say(IF answer = "ok" THEN "updated" ELSE "failed")
  /\ pos' = pos + 1
  /\ pc' = "row"
  /\ UNCHANGED << config, variants, i, batch, totalResults, sleeps, batches,
                  prior, fileVars, others >>

\* ---------------------------------------------------------- importVariants

\* The loop test and body up to the call of processBatch (lines 434-442).
NextBatch ==
  /\ pc = "loop"
  /\ i < Len(variants)
  /\ batch' = Slice(variants, i, i + config.batchSize)
  /\ batches' = Append(batches, batch')
  /\ results' = EmptyResults
  /\ pos' = 1
  /\ pc' = "row"
  /\ UNCHANGED << config, variants, i, totalResults, requests, sleeps,
                  console, prior, fileVars, others >>

\* EndBatch without the test for rows left: a live run pauses after its last
\* batch too.
EndBatch_AlwaysPauses ==
  /\ pc = "row"
  /\ pos > Len(batch)
  /\ totalResults' =
       [success |-> totalResults.success + results.success,
        failed |-> totalResults.failed + results.failed,
        skipped |-> totalResults.skipped + results.skipped,
        details |-> totalResults.details \o results.details]
  /\ IF ~config.dryRun
     THEN /\ sleeps' = sleeps + 1
          /\ pc' = "sleep"
          /\ i' = i
     ELSE /\ sleeps' = sleeps
          /\ pc' = "loop"
          /\ i' = i + config.batchSize
  /\ UNCHANGED << config, variants, batch, pos, results, requests, batches,
                  console, prior, fileVars, others >>

\* processBatch returns (lines 407, 444-453): the totals grow; a live run
\* with rows left starts the one-second pause, any other run goes on.
EndBatch ==
  /\ pc = "row"
  /\ pos > Len(batch)
  /\ totalResults' =
       [success |-> totalResults.success + results.success,
        failed |-> totalResults.failed + results.failed,
        skipped |-> totalResults.skipped + results.skipped,
        details |-> totalResults.details \o results.details]
  /\ IF i + config.batchSize < Len(variants) /\ ~config.dryRun
     THEN /\ sleeps' = sleeps + 1
          /\ pc' = "sleep"
          /\ i' = i
     ELSE /\ sleeps' = sleeps
          /\ pc' = "loop"
          /\ i' = i + config.batchSize
  /\ UNCHANGED << config, variants, batch, pos, results, requests, batches,
                  console, prior, fileVars, others >>

\* The pause's timer fires (line 452), the loop steps (line 434).
Wake ==
  /\ pc = "sleep"
  /\ i' = i + config.batchSize
  /\ pc' = "loop"
  /\ UNCHANGED << config, variants, batch, pos, results, totalResults,
                  requests, sleeps, batches, console, prior, fileVars, others >>

\* The loop ends (lines 434, 456-473): the summary is printed, the results
\* file is written and the process, with nothing left to do, exits with 0.
Summary ==
  /\ pc = "loop"
  /\ ~(i < Len(variants))
  /\ pc' = "done"
  /\ artifact' = <<totalResults>>
  /\ exitCode' = "0"
  /\ UNCHANGED << config, variants, i, batch, pos, results, totalResults,
                  requests, sleeps, batches, console, prior, input, others >>

\* The variant ids the console named with a given line.
Said(what) ==
  {console[n].variantId : n \in {m \in DOMAIN console : console[m].what = what}}

\* The variant ids the results report as successful: a detail all of whose
\* metafield results are successes.
Succeeded ==
  {totalResults.details[n].variantId :
     n \in {m \in DOMAIN totalResults.details :
              \A r \in DOMAIN totalResults.details[m].metafieldResults :
                totalResults.details[m].metafieldResults[r].success}}

\* The operator runs the script again on the same file with --dry-run
\* switched and nothing else changed (the preview-then-apply workflow of the
\* README): a new process, which parses the same rows.  What
\* the finished run printed is kept for comparison.
Rerun ==
  /\ pc = "done"
  /\ ~prior.ran
  /\ prior' = [ran |-> TRUE,
               dryRun |-> config.dryRun,
               skipped |-> Said("skip"),
               succeeded |-> Succeeded,
               attempted |-> Said("processing")]
  /\ config' = [config EXCEPT !.dryRun = ~@]
  /\ pc' = "loop"
  /\ i' = 0
  /\ batch' = <<>>
  /\ pos' = 1
  /\ results' = EmptyResults
  /\ totalResults' = EmptyResults
  /\ requests' = <<>>
  /\ sleeps' = 0
  /\ batches' = <<>>
  /\ console' = <<>>
  /\ exitCode' = "none"
  /\ UNCHANGED << variants, input, artifact, others >>

\* ------------------------------------------------------- the specification

\* The state once parseArgs, validateConfig and parseCSV have run (lines
\* 21-27, 43-48, 421-432).
Init ==
  /\ config \in [dryRun : BOOLEAN, batchSize : 1..MaxBatchSize]
  /\ variants \in RowSeqs
  /\ pc = "loop"
  /\ i = 0
  /\ batch = <<>>
  /\ pos = 1
  /\ results = EmptyResults
  /\ totalResults = EmptyResults
  /\ requests = <<>>
  /\ sleeps = 0
  /\ batches = <<>>
  /\ console = <<>>
  /\ prior = NoRun
  /\ input = NoFile
  /\ exitCode = "none"
  /\ artifact = <<>>
  /\ ExportIdle
  /\ CliIdle
  /\ ToolsIdle

Next ==
  \/ NextBatch
  \/ SkipVariant
  \/ DryRunUpdate
  \/ IssueLookup
  \/ LookupResponse
  \/ MutationResponse
  \/ EndBatch
  \/ Wake
  \/ Summary
  \/ Rerun

Spec == Init /\ [][Next]_vars

\* ------------------------------------------------------------ the claims

\* The ids of the parsed rows, in file order.
Ids == [n \in DOMAIN variants |-> Get(variants[n], ColVariantId)]

IdSet == {Ids[n] : n \in DOMAIN Ids}

\* The rows, by id, with a request that was answered with a failure.
FailingIds ==
  {requests[n].variantId :
     n \in {m \in DOMAIN requests :
              requests[m].answer \notin {"pending", "product", "ok"}}}

\* The rows, by id, from which extractMetafields takes nothing.
SkippableIds ==
  {Ids[n] : n \in {m \in DOMAIN variants : extractMetafields(variants[m]) = <<>>}}

\* The rows, by id, in the order in which processBatch took them up.
TakenUp ==
  LET first == SelectSeq(console,
                 LAMBDA line : line.what \in {"skip", "would update", "processing"})
  IN [n \in DOMAIN first |-> first[n].variantId]

\* C1: in a live import, whichever rows fail at the lookup or the mutation,
\* every row is still taken up, in order, and at the end failed is the number
\* of failing rows and success the number of rows neither skipped nor
\* failing.
C1_PartialFailureIsolation ==
  (pc = "done" /\ ~config.dryRun) =>
    /\ TakenUp = Ids
    /\ totalResults.failed = Cardinality(FailingIds)
    /\ totalResults.success = Cardinality((IdSet \ SkippableIds) \ FailingIds)

\* C1 witness: a finished live run of three rows in batches of two whose
\* first row failed and whose other two rows, one in the same batch and one
\* in the next, succeeded.
C1_Witness ==
  /\ pc = "done"
  /\ ~config.dryRun
  /\ config.batchSize = 2
  /\ Len(variants) = 3
  /\ FailingIds = {Ids[1]}
  /\ totalResults.success = 2
  /\ totalResults.failed = 1

\* C2: a dry run sends no request, lookup or mutation.
C2_DryRunNoRequests == config.dryRun => requests = <<>>

\* C2 witness: a finished dry run that reported two rows as updated.
C2_Witness ==
  /\ pc = "done"
  /\ config.dryRun
  /\ totalResults.success = 2
  /\ requests = <<>>

\* A metafield column: a column named as the export names them,
\* metafield_{namespace}_{key}.
IsMetafieldColumn(key) ==
  /\ StartsWith(key, MetafieldPrefix)
  /\ IndexOf(SubSeq(key, Len(MetafieldPrefix) + 1, Len(key)), <<"_">>) # 0

\* A row none of whose metafield columns holds a value.
NoValue(row) ==
  \A n \in DOMAIN row : IsMetafieldColumn(row[n].key) => row[n].value = ""

NoValueIds == {Ids[n] : n \in {m \in DOMAIN variants : NoValue(variants[m])}}

\* The ids of the rows in a detail list.
DetailIds(details) == {details[n].variantId : n \in DOMAIN details}

\* C3: a row without a value in any metafield column never causes a request
\* and never gets a success or failure entry, in either mode; when taken up
\* it is reported skipped, and at the end skipped counts the rows reported
\* skipped while success and failed count the others.
C3_SkipRule ==
  /\ \A n \in DOMAIN requests : requests[n].variantId \notin NoValueIds
  /\ NoValueIds \cap DetailIds(results.details) = {}
  /\ NoValueIds \cap DetailIds(totalResults.details) = {}
  /\ \A n \in DOMAIN console :
       console[n].variantId \in NoValueIds => console[n].what = "skip"
  /\ pc = "done" =>
       /\ NoValueIds \subseteq Said("skip")
       /\ totalResults.skipped = Cardinality(Said("skip"))
       /\ totalResults.success + totalResults.failed =
            Len(variants) - Cardinality(Said("skip"))

\* C3 witness: a finished live run with a row without values and a row with
\* values, the first skipped and the second updated.
C3_Witness ==
  /\ pc = "done"
  /\ ~config.dryRun
  /\ Len(variants) = 2
  /\ NoValueIds = {Ids[1]}
  /\ totalResults.skipped = 1
  /\ totalResults.success = 1

\* C4: of a dry run and a live run on the same rows, both skip the same
\* rows, the rows the dry run reports as successful are the rows the live run
\* attempts to update, and only the live run sends requests.
C4_DryRunEquivalence ==
  (pc = "done" /\ prior.ran) =>
    /\ prior.skipped = Said("skip")
    /\ IF prior.dryRun
       THEN /\ prior.succeeded = Said("processing")
            /\ prior.attempted = {}
            /\ \A id \in Said("processing") :
                 \E n \in DOMAIN requests : requests[n].variantId = id
       ELSE /\ Succeeded = prior.attempted
            /\ Said("processing") = {}
            /\ requests = <<>>

\* C4 witness: a dry run that skipped a row and reported another as
\* successful, followed by a live run on the same rows in which that other
\* row was attempted and failed.
C4_Witness ==
  /\ pc = "done"
  /\ prior.ran
  /\ prior.dryRun
  /\ prior.skipped # {}
  /\ prior.succeeded # {}
  /\ totalResults.failed = 1
  /\ totalResults.success = 0

\* The slices handed to processBatch so far, one after the other.
RECURSIVE Concat(_)
Concat(seqs) == IF seqs = <<>> THEN <<>> ELSE Head(seqs) \o Concat(Tail(seqs))

\* C5: the slices handed to processBatch are consecutive slices of the parsed
\* rows: none is empty, none is longer than the batch size, only the slice
\* that ends the file may be shorter, and at the end their concatenation is
\* the parsed row sequence and every row was taken up once, in order.
C5_BatchPartition ==
  LET done == Concat(batches)
  IN /\ Len(done) <= Len(variants)
     /\ done = SubSeq(variants, 1, Len(done))
     /\ \A k \in DOMAIN batches :
          /\ Len(batches[k]) >= 1
          /\ Len(batches[k]) <= config.batchSize
          /\ k < Len(batches) => Len(batches[k]) = config.batchSize
          /\ Len(batches[k]) < config.batchSize => done = variants
     /\ pc = "done" => (done = variants /\ TakenUp = Ids)

\* C5 witness: a finished run of three rows in batches of two: a slice of two
\* rows and a slice of one.
C5_Witness ==
  /\ pc = "done"
  /\ config.batchSize = 2
  /\ Len(variants) = 3
  /\ Len(batches) = 2
  /\ Len(batches[1]) = 2
  /\ Len(batches[2]) = 1

\* C6: a dry run never pauses.  In a live run a pause follows every batch but
\* the last: while the rows of batch k are worked on, and whenever a request
\* is in flight, k-1 pauses have been started and all have ended; a pause
\* runs only between two batches, with no request in flight; a finished run
\* of k >= 1 batches has paused k-1 times.
C6_Pacing ==
  IF config.dryRun
  THEN sleeps = 0 /\ pc # "sleep"
  ELSE /\ pc = "sleep" =>
            /\ InFlight = {}
            /\ sleeps = Len(batches)
            /\ Len(Concat(batches)) < Len(variants)
       /\ (pc \in {"row", "awaitLookup", "awaitMutation"} \/ InFlight # {}) =>
            /\ pc # "sleep"
            /\ sleeps = Len(batches) - 1
       /\ (pc = "done" /\ Len(batches) >= 1) => sleeps = Len(batches) - 1
       /\ (pc = "done" /\ Len(batches) = 0) => sleeps = 0

\* C6 witness: a finished live run of three batches that paused twice and
\* sent a request in its last batch.
C6_Witness ==
  /\ pc = "done"
  /\ ~config.dryRun
  /\ Len(batches) = 3
  /\ sleeps = 2
  /\ \E n \in DOMAIN requests :
       requests[n].variantId = Get(batches[3][1], ColVariantId)

\* C7: at most one request is in flight: only the last request sent can be
\* without its answer.
C7_OneInFlight ==
  /\ Cardinality(InFlight) <= 1
  /\ \A n \in DOMAIN requests :
       n < Len(requests) => requests[n].answer # "pending"

\* C7 witness: a request in flight after two requests that were answered.
C7_Witness ==
  /\ Len(requests) = 3
  /\ InFlight = {3}
  /\ requests[1].answer # "pending"
  /\ requests[2].answer # "pending"

\* The row with a given id.
RowOf(id) == variants[CHOOSE n \in DOMAIN variants : Ids[n] = id]

\* The places in the request log of the requests of one kind for one row.
Sent(op, id) ==
  {n \in DOMAIN requests : requests[n].op = op /\ requests[n].variantId = id}

\* The ids of the rows a detail list records as failed.
FailedIn(details) ==
  {details[n].variantId :
     n \in {m \in DOMAIN details :
              \E r \in DOMAIN details[m].metafieldResults :
                ~details[m].metafieldResults[r].success}}

C9_ThrottledIsRetried ==
  pc = "done" =>
    \A n \in DOMAIN requests :
      (requests[n].op = "productVariantsBulkUpdate"
         /\ requests[n].answer = "throttled") =>
        \E m \in DOMAIN requests :
          /\ m > n
          /\ requests[m].op = "productVariantsBulkUpdate"
          /\ requests[m].variantId = requests[n].variantId

\* The ids of a detail list, in its order.
DetailSeq(details) == [n \in DOMAIN details |-> details[n].variantId]

\* C10 as stated: at the end the detail list has exactly one entry for every
\* parsed row, skipped rows included.
C10_DetailForEveryRow ==
  pc = "done" => DetailSeq(totalResults.details) = Ids

\* C10 as amended: at the end the detail list has exactly one entry, a success
\* or a failure, for every parsed row that was not skipped, in file order;
\* a skipped row has no entry and shows in the skipped count only.
C10_DetailForEveryRowNotSkipped ==
  pc = "done" =>
    /\ DetailSeq(totalResults.details) =
         SelectSeq(Ids, LAMBDA id : id \notin Said("skip"))
    /\ \A n \in DOMAIN totalResults.details :
         totalResults.details[n].metafieldResults # <<>>
    /\ totalResults.skipped = Cardinality(Said("skip"))
    /\ Len(totalResults.details) = totalResults.success + totalResults.failed

\* C10 witness: a finished live run of three rows, one skipped, one updated,
\* one failed, with two details.
C10_Witness ==
  /\ pc = "done"
  /\ ~config.dryRun
  /\ Len(variants) = 3
  /\ totalResults.skipped = 1
  /\ totalResults.success = 1
  /\ totalResults.failed = 1
  /\ Len(totalResults.details) = 2

\* ================================================================ export
\* export-variants.js: exportVariants, getVariantMetafieldDefinitions,
\* getProducts, flattenMetafields and arrayToCSV.

\* The most variants the shop returns in one export.
MaxVariants == 3

\* The characters of a string, and the string of a sequence of characters.
Chars(s) == SubSeq([n \in 1..Len(s) |-> SubSeq(s, n, n)], 1, Len(s))

RECURSIVE Str(_)
Str(cs) ==
  IF Len(cs) = 0 THEN ""
  ELSE IF Len(cs) = 1 THEN cs[1]
  ELSE LET half == Len(cs) \div 2
       IN Str(SubSeq(cs, 1, half)) \o Str(SubSeq(cs, half + 1, Len(cs)))

\* The metafields of the shop's variants: one in the custom namespace, two
\* whose namespace and key differ but read the same once joined by "_", and
\* one in a namespace of the excluded list.
MfPopular == [namespace |-> "custom", key |-> "popular"]

MfA == [namespace |-> "a", key |-> "b_c"]

MfAB == [namespace |-> "a_b", key |-> "c"]

MfGlobal == [namespace |-> "global", key |-> "note"]

\* The metafield definitions the shop may have.
DefinitionChoices ==
  { <<>>, <<MfPopular>>, <<MfPopular, MfA>>, <<MfA, MfAB>>,
    <<MfPopular, MfGlobal>> }

\* The metafields a variant may carry, with their values.
With(mf, value) ==
  [namespace |-> mf.namespace, key |-> mf.key, value |-> value]

VariantMetafieldChoices ==
  { <<>>, <<With(MfPopular, "true")>>, <<With(MfA, "x"), With(MfAB, "y")>>,
    <<With(MfGlobal, "n")>> }

\* The product lists the shop may return: up to MaxVariants variants, cut
\* into products of one or more variants each.
ProductsOf(len, carried, cuts) ==
  LET productOf(n) == 1 + Cardinality({c \in cuts : c < n})
      count == IF len = 0 THEN 0 ELSE productOf(len)
  IN [p \in 1..count |->
        [id |-> "product-" \o ToString(p),
         title |-> "Frames",
         variants |->
           SelectSeq([n \in 1..len |->
                        [id |-> "gid-" \o ToString(n),
                         product |-> p,
                         title |-> "Frame",
                         sku |-> IF n = 1 THEN "" ELSE "S" \o ToString(n),
                         metafields |-> carried[n]]],
                     LAMBDA v : productOf(
                       CHOOSE n \in 1..len : v.id = "gid-" \o ToString(n)) = p)]]

ProductLists ==
  UNION { { ProductsOf(len, carried, cuts) :
              carried \in [1..len -> VariantMetafieldChoices],
              cuts \in SUBSET (1..(len - 1)) }
          : len \in 0..MaxVariants }

\* excludedNamespaces of getVariantMetafieldDefinitions.
excludedNamespaces ==
  { "shopify", "global", "reviews", "judge_me", "yotpo", "stamped", "loox",
    "okendo", "gorgias", "klaviyo", "mailchimp", "privy", "bold", "recharge",
    "subscription", "upsell", "cross_sell", "product_bundles",
    "inventory_quantity", "inventory_management" }

\* The definitions getVariantMetafieldDefinitions returns for an answer.
filteredMetafields(definitions) ==
  IF xconfig.includeAllMetafields THEN definitions
  ELSE SelectSeq(definitions,
         LAMBDA mf : mf.namespace = "custom"
                       \/ mf.namespace \notin excludedNamespaces)

\* A separator that is not the underscore.
ColumnOf_DotSeparator(mf) ==
  MetafieldPrefix \o Chars(mf.namespace) \o <<".">> \o Chars(mf.key)

\* `metafield_${namespace}_${key}`
ColumnOf(mf) ==
  MetafieldPrefix \o Chars(mf.namespace) \o <<"_">> \o Chars(mf.key)

\* allMetafieldKeys: a Set, which keeps the order of first insertion.
RECURSIVE KeySet(_)
KeySet(definitions) ==
  IF definitions = <<>> THEN <<>>
  ELSE LET before == KeySet(SubSeq(definitions, 1, Len(definitions) - 1))
           key == ColumnOf(definitions[Len(definitions)])
       IN IF \E n \in DOMAIN before : before[n] = key
          THEN before ELSE Append(before, key)

\* flattenMetafields(metafields)[key]: the value of the last metafield that
\* is written under the key, "undefined" when there is none.
flattened(mfs, key) ==
  LET at == {n \in DOMAIN mfs : ColumnOf(mfs[n]) = key}
  IN IF at = {} THEN "undefined"
     ELSE mfs[CHOOSE n \in at : \A m \in at : m <= n].value

\* x || "" for a string or undefined x.
OrEmpty(x) == IF x = "undefined" THEN "" ELSE x

\* String.prototype.replace(/c/g, r): every occurrence of the character c.
RECURSIVE ReplaceAll(_, _, _)
ReplaceAll(s, c, r) ==
  IF s = <<>> THEN <<>>
  ELSE (IF Head(s) = c THEN r ELSE <<Head(s)>>) \o ReplaceAll(Tail(s), c, r)

Includes(s, c) == \E n \in DOMAIN s : s[n] = c

\* A field that is quoted where it needs it, its quotes left single.
Field_QuotesNotDoubled(value) ==
  LET s == Chars(value)
  IN IF Includes(s, ",") \/ Includes(s, "\"") \/ Includes(s, "\n")
     THEN <<"\"">> \o s \o <<"\"">>
     ELSE s

\* The field arrayToCSV writes for a string value (lines 366-374).
Field(value) ==
  LET s == Chars(value)
  IN IF Includes(s, ",") \/ Includes(s, "\"") \/ Includes(s, "\n")
     THEN <<"\"">> \o ReplaceAll(s, "\"", <<"\"", "\"">>) \o <<"\"">>
     ELSE s

\* An encoder that writes no header line.
arrayToCSV_NoHeaderLine(data) ==
  IF Len(data) = 0 THEN ""
  ELSE LET headers == [n \in DOMAIN data[1] |-> data[1][n].key]
           line(row) ==
             Join([n \in DOMAIN headers |->
                     Field(OrEmpty(Get(row, headers[n])))], ",")
       IN Str(Join([n \in DOMAIN data |-> line(data[n])], "\n"))

\* arrayToCSV(data): the header line from the keys of the first row, then
\* one line per row with the row's value under each header, "" when the row
\* has none.
arrayToCSV(data) ==
  IF Len(data) = 0 THEN ""
  ELSE LET headers == [n \in DOMAIN data[1] |-> data[1][n].key]
           line(row) ==
             Join([n \in DOMAIN headers |->
                        Field(OrEmpty(Get(row, headers[n])))], ",")
       IN Str(Join(<<Join(headers, ",")>>
                        \o [n \in DOMAIN data |-> line(data[n])], "\n"))

\* The variant record of exportVariants (lines 435-458), its keys in
\* insertion order: the fixed columns, then one column per key of
\* allMetafieldKeys.  The fixed columns kept are those with string values;
\* the others are written on every record in the same way.
variantRecord_OwnMetafieldsOnly(product, v, keys) ==
  << [key |-> Chars("product_id"), value |-> product.id],
     [key |-> Chars("product_title"), value |-> product.title],
     [key |-> ColVariantId, value |-> v.id],
     [key |-> ColVariantTitle, value |-> v.title],
     [key |-> Chars("variant_sku"), value |-> v.sku] >>
  \o [n \in DOMAIN v.metafields |->
        [key |-> ColumnOf(v.metafields[n]), value |-> v.metafields[n].value]]

variantRecord_KeyedByDefinition(product, v, keys) ==
  << [key |-> Chars("product_id"), value |-> product.id],
     [key |-> Chars("product_title"), value |-> product.title],
     [key |-> ColVariantId, value |-> v.id],
     [key |-> ColVariantTitle, value |-> v.title],
     [key |-> Chars("variant_sku"), value |-> v.sku] >>
  \o [n \in DOMAIN keys |-> [key |-> keys[n], value |-> ""]]

variantRecord(product, v, keys) ==
  << [key |-> Chars("product_id"), value |-> product.id],
     [key |-> Chars("product_title"), value |-> product.title],
     [key |-> ColVariantId, value |-> v.id],
     [key |-> ColVariantTitle, value |-> v.title],
     [key |-> Chars("variant_sku"), value |-> OrEmpty(v.sku)] >>
  \o [n \in DOMAIN keys |->
        [key |-> keys[n], value |-> OrEmpty(flattened(v.metafields, keys[n]))]]

\* The records of the loops of lines 410-462, in the order pushed.
RECURSIVE recordsOf(_, _)
recordsOf(products, keys) ==
  IF products = <<>> THEN <<>>
  ELSE LET product == Head(products)
       IN [n \in DOMAIN product.variants |->
             variantRecord(product, product.variants[n], keys)]
          \o recordsOf(Tail(products), keys)

\* What the network may answer to the definitions query and to the product
\* query: the data asked for, no product under the id asked for, a failure.
DefinitionAnswers == {"ok", "error"}

ProductAnswers == {"ok", "noProduct", "error"}

Answered(answer) ==
  [xrequests EXCEPT ![Len(xrequests)].answer = answer]

\* IssueDefinitions with getProducts called next to
\* getVariantMetafieldDefinitions, not after it: both queries go out at once.
IssueDefinitions_NoAwait ==
  /\ xpc = "start"
  /\ xpc' = "definitions"
  /\ xrequests' =
       << [op |-> IF xconfig.productId THEN "product" ELSE "products",
           answer |-> "pending"],
          [op |-> "definitions", answer |-> "pending"] >>
  /\ UNCHANGED << xconfig, shop, allMetafieldKeys, allVariants, output,
                  importVars, fileVars, cliVars, toolVars >>

\* exportVariants starts (lines 386-389, 279): the definitions query of
\* getVariantMetafieldDefinitions goes out.
IssueDefinitions ==
  /\ xpc = "start"
  /\ xpc' = "definitions"
  /\ xrequests' = Append(xrequests, [op |-> "definitions", answer |-> "pending"])
  /\ UNCHANGED << xconfig, shop, allMetafieldKeys, allVariants, output,
                  importVars, fileVars, cliVars, toolVars >>

\* The definitions query is answered (lines 284-335, 390-396, 404): the
\* definitions are filtered, or a failure is caught with a warning and gives
\* no definitions; allMetafieldKeys is filled and the product query of
\* getProducts goes out.
DefinitionsResponse ==
  /\ xpc = "definitions"
  /\ \E answer \in DefinitionAnswers :
       /\ allMetafieldKeys' =
            KeySet(IF answer = "ok" THEN filteredMetafields(shop.definitions)
                   ELSE <<>>)
       /\ xrequests' =
            Append(Answered(answer),
                   [op |-> IF xconfig.productId THEN "product" ELSE "products",
                    answer |-> "pending"])
  /\ xpc' = "products"
  /\ UNCHANGED << xconfig, shop, allVariants, output, importVars, fileVars, cliVars, toolVars >>

\* What getProducts returns for a product id that names no product: the
\* null of response.product (line 192).
Null == [id |-> "null", title |-> "", variants |-> <<>>]

\* The products getProducts returns for an answer (lines 192, 249).
fetched(answer) ==
  IF xconfig.productId
  THEN IF answer = "ok" THEN <<shop.products[1]>> ELSE <<Null>>
  ELSE shop.products

\* A product query whose failure leaves an export of no rows.
ProductsResponse_SwallowsFailure ==
  /\ xpc = "products"
  /\ \E answer \in ProductAnswers :
       /\ answer = "ok" /\ xconfig.productId => shop.products # <<>>
       /\ answer = "noProduct" => xconfig.productId
       /\ xrequests' = Answered(answer)
       /\ LET products == IF answer = "ok" THEN fetched(answer) ELSE <<>>
          IN /\ allVariants' = recordsOf(products, allMetafieldKeys)
             /\ output' = <<arrayToCSV(allVariants')>>
             /\ exitCode' = "0"
             /\ xpc' = "done"
  /\ UNCHANGED << xconfig, shop, allMetafieldKeys, importVars, input,
                  artifact, cliVars, toolVars >>

\* The product query is answered (lines 189-192, 248-254, 405-483).  A
\* failure is rethrown by getProducts and caught by exportVariants, and so is
\* the TypeError of reading product.title of a null product (line 411): the
\* process exits with 1 and nothing is written.  Otherwise the records are
\* built, encoded and written, and the process ends with 0.
ProductsResponse ==
  /\ xpc = "products"
  /\ \E answer \in ProductAnswers :
       /\ answer = "ok" /\ xconfig.productId => shop.products # <<>>
       /\ answer = "noProduct" => xconfig.productId
       /\ xrequests' = Answered(answer)
       /\ IF answer = "error" \/ \E n \in DOMAIN fetched(answer) :
                                    fetched(answer)[n] = Null
          THEN /\ exitCode' = "1"
               /\ xpc' = "failed"
               /\ UNCHANGED << allVariants, output >>
          ELSE /\ allVariants' = recordsOf(fetched(answer), allMetafieldKeys)
               /\ output' = <<arrayToCSV(allVariants')>>
               /\ exitCode' = "0"
               /\ xpc' = "done"
  /\ UNCHANGED << xconfig, shop, allMetafieldKeys, importVars, input,
                  artifact, cliVars, toolVars >>

\* The import at rest, while another command runs.
ImportIdle ==
  /\ config = [dryRun |-> FALSE, batchSize |-> 1]
  /\ variants = <<>>
  /\ pc = "idle"
  /\ i = 0
  /\ batch = <<>>
  /\ pos = 1
  /\ results = EmptyResults
  /\ totalResults = EmptyResults
  /\ requests = <<>>
  /\ sleeps = 0
  /\ batches = <<>>
  /\ console = <<>>
  /\ prior = NoRun

InitExport ==
  /\ xconfig \in [productId : BOOLEAN, includeAllMetafields : BOOLEAN]
  /\ shop \in [definitions : DefinitionChoices, products : ProductLists]
  /\ xpc = "start"
  /\ xrequests = <<>>
  /\ allMetafieldKeys = <<>>
  /\ allVariants = <<>>
  /\ output = <<>>
  /\ ImportIdle
  /\ input = NoFile
  /\ exitCode = "none"
  /\ artifact = <<>>
  /\ CliIdle
  /\ ToolsIdle

NextExport ==
  \/ IssueDefinitions
  \/ DefinitionsResponse
  \/ ProductsResponse

SpecExport == InitExport /\ [][NextExport]_vars

\* ------------------------------------------------- the claims: export

\* The metafields a variant of the shop may carry or a definition may name.
Metafields == {MfPopular, MfA, MfAB, MfGlobal}

\* The variants of the shop, and those with a record in the export.
ShopVariants ==
  UNION { {shop.products[p].variants[n] : n \in DOMAIN shop.products[p].variants}
          : p \in DOMAIN shop.products }

RecordsFor(v) ==
  {n \in DOMAIN allVariants : Get(allVariants[n], ColVariantId) = v.id}

ExportedVariants == {v \in ShopVariants : RecordsFor(v) # {}}

RecordOf(v) == allVariants[CHOOSE n \in RecordsFor(v) : TRUE]

Carries(v, mf) ==
  \E n \in DOMAIN v.metafields :
    v.metafields[n].namespace = mf.namespace /\ v.metafields[n].key = mf.key

ValueOf(v, mf) ==
  v.metafields[CHOOSE n \in DOMAIN v.metafields :
                 /\ v.metafields[n].namespace = mf.namespace
                 /\ v.metafields[n].key = mf.key].value

\* Both rows have the column of mf, the first with the value, the second
\* empty.
Complete(v1, v2, mf) ==
  /\ Get(RecordOf(v1), ColumnOf(mf)) = ValueOf(v1, mf)
  /\ Get(RecordOf(v2), ColumnOf(mf)) = ""

\* The definitions query was answered with a definition of mf, and the
\* namespace filter kept it.
Kept(mf) ==
  /\ xrequests[1].answer = "ok"
  /\ \E n \in DOMAIN filteredMetafields(shop.definitions) :
       filteredMetafields(shop.definitions)[n] = mf

\* v carries a metafield other than mf that is written under mf's column.
Clashes(v, mf) ==
  \E n \in DOMAIN v.metafields :
    /\ ColumnOf(v.metafields[n]) = ColumnOf(mf)
    /\ ~(v.metafields[n].namespace = mf.namespace
         /\ v.metafields[n].key = mf.key)

\* C11 as stated: for any two exported variants of which one has a value for
\* (namespace, key) and the other has not, both rows have the column of
\* (namespace, key), with the value in the first and "" in the second.
C11_ColumnCompleteness ==
  xpc = "done" =>
    \A v1 \in ExportedVariants, v2 \in ExportedVariants, mf \in Metafields :
      Carries(v1, mf) /\ ~Carries(v2, mf) => Complete(v1, v2, mf)

\* C11, amended: the same, for a (namespace, key) that has a definition which
\* the definitions query returned and the namespace filter kept, and two
\* variants that carry no other metafield written under the same column name.
C11_ColumnCompletenessOfKept ==
  xpc = "done" =>
    \A v1 \in ExportedVariants, v2 \in ExportedVariants, mf \in Metafields :
      /\ Carries(v1, mf) /\ ~Carries(v2, mf)
      /\ Kept(mf)
      /\ ~Clashes(v1, mf) /\ ~Clashes(v2, mf)
      => Complete(v1, v2, mf)

C11_Witness ==
  /\ xpc = "done"
  /\ \E v1 \in ExportedVariants, v2 \in ExportedVariants, mf \in Metafields :
       /\ Carries(v1, mf) /\ ~Carries(v2, mf)
       /\ Kept(mf)
       /\ ~Clashes(v1, mf) /\ ~Clashes(v2, mf)
       /\ mf.namespace # "custom"
       /\ Complete(v1, v2, mf)

\* The column names of a record, in order.
Columns(record) == [n \in DOMAIN record |-> record[n].key]

\* C12: every record of one export has the same columns, whatever metafields
\* its variant carries.
C12_SameColumns ==
  \A n \in DOMAIN allVariants, m \in DOMAIN allVariants :
    Columns(allVariants[n]) = Columns(allVariants[m])

C12_Witness ==
  /\ xpc = "done"
  /\ allMetafieldKeys # <<>>
  /\ \E v1 \in ExportedVariants, v2 \in ExportedVariants :
       /\ v1.metafields # <<>>
       /\ v2.metafields # <<>>
       /\ \A mf \in Metafields : ~(Carries(v1, mf) /\ Carries(v2, mf))

\* The export has ended, one way or the other.
ExportEnded == xpc \in {"done", "failed"}

\* The query op was answered with a failure.
FailedQuery(op) ==
  \E n \in DOMAIN xrequests :
    xrequests[n].op = op /\ xrequests[n].answer = "error"

ProductQueryFailed == FailedQuery("product") \/ FailedQuery("products")

\* C16 as stated: an export in which the definitions query or the product
\* query failed ends with a non-zero exit code and without a CSV file.
C16_AnyFailureAborts ==
  ExportEnded /\ (FailedQuery("definitions") \/ ProductQueryFailed)
    => exitCode = "1" /\ output = <<>>

\* C16, amended: a failed product query ends the export with a non-zero exit
\* code and without a CSV file; a failed definitions query does not end it:
\* the product query is sent all the same, and an export that then goes
\* through writes its file, without metafield columns, and ends with 0.
C16_ProductFailureAborts ==
  /\ ExportEnded /\ ProductQueryFailed => exitCode = "1" /\ output = <<>>
  /\ FailedQuery("definitions") =>
       /\ Len(xrequests) = 2
       /\ allMetafieldKeys = <<>>
       /\ xpc = "done" =>
            /\ exitCode = "0"
            /\ output = <<arrayToCSV(allVariants)>>
            /\ \A n \in DOMAIN allVariants :
                 \A m \in DOMAIN allVariants[n] :
                   ~StartsWith(allVariants[n][m].key, MetafieldPrefix)

C16_Witness ==
  /\ xpc = "failed"
  /\ FailedQuery("definitions")
  /\ ProductQueryFailed
  /\ shop.definitions # <<>>
  /\ shop.products # <<>>

\* The product query was answered without a failure and with no product: an
\* empty list, or nothing under the id that --product-id names.
ZeroProducts ==
  /\ Len(xrequests) = 2
  /\ \/ xrequests[2].op = "products" /\ xrequests[2].answer = "ok"
          /\ shop.products = <<>>
     \/ xrequests[2].op = "product" /\ xrequests[2].answer = "noProduct"

\* C17: an export whose product query found no product ends without an
\* error, with a file of no rows.
C17_ZeroProductsSucceeds ==
  ExportEnded /\ ZeroProducts =>
    /\ xpc = "done"
    /\ exitCode = "0"
    /\ allVariants = <<>>
    /\ output = <<"">>

\* ============================================================== parseCSV
\* import-variants.js: parseCSV and parseCSVLine, on the characters of the
\* text.

\* The characters String.prototype.trim removes that the texts here hold.
WhiteSpace == {" ", "\t", "\r", "\n"}

\* String.prototype.trim
Trim(s) ==
  LET keep == {n \in DOMAIN s : s[n] \notin WhiteSpace}
  IN IF keep = {} THEN <<>>
     ELSE SubSeq(s, CHOOSE n \in keep : \A m \in keep : n <= m,
                    CHOOSE n \in keep : \A m \in keep : m <= n)

\* The loop of parseCSVLine (lines 134-152) from character n on, with the
\* field read so far, the quote state and the fields pushed so far.
RECURSIVE scan(_, _, _, _, _)
scan(line, n, current, inQuotes, values) ==
  IF n > Len(line) THEN Append(values, Trim(current))
  ELSE IF line[n] = "\""
  THEN IF inQuotes /\ n + 1 <= Len(line) /\ line[n + 1] = "\""
       THEN scan(line, n + 2, Append(current, "\""), inQuotes, values)
       ELSE scan(line, n + 1, current, ~inQuotes, values)
  ELSE IF line[n] = "," /\ ~inQuotes
  THEN scan(line, n + 1, <<>>, inQuotes, Append(values, Trim(current)))
  ELSE scan(line, n + 1, Append(current, line[n]), inQuotes, values)

parseCSVLine(line) == scan(line, 1, <<>>, FALSE, <<>>)

\* content.split("\n").filter((line) => line.trim())
linesOf(content) ==
  SelectSeq(Split(Chars(content), "\n"), LAMBDA line : Trim(line) # <<>>)

\* lines[0].split(",").map((h) => h.replace(/"/g, "").trim())
headersOf(line) ==
  LET raw == Split(line, ",")
  IN [n \in DOMAIN raw |-> Trim(ReplaceAll(raw[n], "\"", <<>>))]

\* A parser that makes a row of every data line, whatever its field count: a
\* missing value reads as "".
kept_AnyFieldCount(headers, lines) ==
  [n \in 1..(Len(lines) - 1) |-> n + 1]

\* The data lines parseCSV makes rows of (lines 107-116), by their index in
\* lines: those with as many fields as there are headers.
kept(headers, lines) ==
  SelectSeq([n \in 1..(Len(lines) - 1) |-> n + 1],
            LAMBDA l : Len(parseCSVLine(lines[l])) = Len(headers))

\* The data lines parseCSV warns about and drops.
dropped(headers, lines) ==
  SelectSeq([n \in 1..(Len(lines) - 1) |-> n + 1],
            LAMBDA l : Len(parseCSVLine(lines[l])) # Len(headers))

\* The row object of a data line (lines 118-121): its keys are the headers,
\* in order, which are taken to differ from each other.
rowOf(headers, line) ==
  LET values == parseCSVLine(line)
  IN [n \in DOMAIN headers |->
        [key |-> headers[n],
         value |-> IF n <= Len(values) THEN Str(values[n]) ELSE ""]]

\* parseCSV(content): whether it threw, the rows it returns and the lines it
\* warned about.
parseCSV(content) ==
  LET lines == linesOf(content)
  IN IF Len(lines) < 2
     THEN [threw |-> TRUE, data |-> <<>>, warned |-> <<>>]
     ELSE LET headers == headersOf(lines[1])
              rows == kept(headers, lines)
          IN [threw |-> FALSE,
              data |-> [n \in DOMAIN rows |-> rowOf(headers, lines[rows[n]])],
              warned |-> dropped(headers, lines)]

\* ============================================== encoding and decoding
\* arrayToCSV of the export applied to a row set, and parseCSV of the import
\* applied to the text it gives.

\* The longest namespace or key.
MaxNameLen == 2

\* Namespaces and keys: the strings of letters and underscores.
NameChars == {"a", "_"}

Names ==
  UNION { {Str(name) : name \in [1..len -> NameChars]} : len \in 1..MaxNameLen }

\* Cell values: empty, plain, with a space in front, with commas, quotes,
\* both, a space after a comma, and a line break.
CellValues == {"", "a", " a", "a,b", "a,\"b\"", "\"", ", ", "a\nb"}

\* The columns of a row set.
HeaderChoices ==
  { <<ColVariantTitle>>, <<ColVariantId, ColVariantTitle>>,
    <<ColVariantTitle, ColVariantId>> }

\* The row set with one row per entry of cells: the title is the entry, the
\* identifier is that of the row.
TableOf(headers, cells) ==
  [r \in DOMAIN cells |->
    [n \in DOMAIN headers |->
      [key |-> headers[n],
       value |-> IF headers[n] = ColVariantId
                 THEN "gid-" \o ToString(r) ELSE cells[r]]]]

\* A shop of one variant with one metafield, which has a definition.
NameShop(mf) ==
  [definitions |-> <<mf>>,
   products |-> ProductsOf(1, << <<With(mf, "x")>> >>, {})]

\* The row set to encode: up to MaxRows rows under any of the headers with
\* any of the cell values, or the records of a shop with one metafield of
\* any namespace and key.
InitCodec ==
  /\ xconfig = [productId |-> FALSE, includeAllMetafields |-> FALSE]
  /\ \/ /\ shop = [definitions |-> <<>>, products |-> <<>>]
        /\ allMetafieldKeys = <<>>
        /\ \E headers \in HeaderChoices, len \in 1..MaxRows :
             \E cells \in [1..len -> CellValues] :
               allVariants = TableOf(headers, cells)
     \/ \E namespace \in Names, key \in Names :
          /\ shop = NameShop([namespace |-> namespace, key |-> key])
          /\ allMetafieldKeys = KeySet(filteredMetafields(shop.definitions))
          /\ allVariants = recordsOf(shop.products, allMetafieldKeys)
  /\ xpc = "encode"
  /\ xrequests = <<>>
  /\ output = <<>>
  /\ ImportIdle
  /\ input = NoFile
  /\ exitCode = "none"
  /\ artifact = <<>>
  /\ CliIdle
  /\ ToolsIdle

\* arrayToCSV and writeFileSync (export-variants.js, lines 467-471).
Encode ==
  /\ xpc = "encode"
  /\ output' = <<arrayToCSV(allVariants)>>
  /\ xpc' = "encoded"
  /\ UNCHANGED << xconfig, shop, xrequests, allMetafieldKeys, allVariants,
                  importVars, fileVars, cliVars, toolVars >>

\* readFileSync and parseCSV (import-variants.js, lines 421-422) on the file
\* the export wrote.
Decode ==
  /\ xpc = "encoded"
  /\ pc = "idle"
  /\ LET parsed == parseCSV(output[1])
     IN /\ variants' = parsed.data
        /\ pc' = IF parsed.threw THEN "threw" ELSE "parsed"
  /\ UNCHANGED << config, i, batch, pos, results, totalResults, requests,
                  sleeps, batches, console, prior, fileVars, others >>

NextCodec ==
  \/ Encode
  \/ Decode

SpecCodec == InitCodec /\ [][NextCodec]_vars

\* --------------------------------- the claims: encoding and decoding

\* The one metafield of a shop of NameShop.
TheMetafield == shop.definitions[1]

\* What extractMetafields takes from a parsed row is the one metafield, with
\* the namespace and key it has in the shop.
ExtractsTheMetafield(row) ==
  /\ Len(extractMetafields(row)) = 1
  /\ extractMetafields(row)[1].namespace = Chars(TheMetafield.namespace)
  /\ extractMetafields(row)[1].key = Chars(TheMetafield.key)

\* C13 as stated: for every namespace and key, the import extracts from the
\* column name the export writes for them the same namespace and key.
C13_ColumnNameRoundTrip ==
  pc = "parsed" /\ shop.definitions # <<>> =>
    /\ Len(variants) = 1
    /\ ExtractsTheMetafield(variants[1])

\* C13, amended: the same, for every namespace without an underscore and
\* every key.
C13_ColumnNameRoundTripPlainNamespace ==
  /\ pc = "parsed"
  /\ shop.definitions # <<>>
  /\ ~Includes(Chars(TheMetafield.namespace), "_")
  => /\ Len(variants) = 1
     /\ ExtractsTheMetafield(variants[1])

C13_Witness ==
  /\ pc = "parsed"
  /\ shop.definitions # <<>>
  /\ ~Includes(Chars(TheMetafield.namespace), "_")
  /\ Includes(Chars(TheMetafield.key), "_")
  /\ Len(variants) = 1
  /\ ExtractsTheMetafield(variants[1])

\* The cells of the row set that was encoded, as (row, column) pairs.
Cells == {<<r, c>> : r \in DOMAIN allVariants, c \in 1..Len(allVariants[1])}

CellAt(cell) == allVariants[cell[1]][cell[2]].value

\* The text was decoded, with rows or with an exception.
Decoded == pc \in {"parsed", "threw"}

\* No comma, double quote or line break.
Plain(value) ==
  /\ ~Includes(Chars(value), ",")
  /\ ~Includes(Chars(value), "\"")
  /\ ~Includes(Chars(value), "\n")

\* No white space at either end.
Trimmed(value) == Trim(Chars(value)) = Chars(value)

\* No row of the row set is written as a line of white space only: there is
\* more than one column, or no cell is empty.
NoBlankLine ==
  \/ Len(allVariants[1]) > 1
  \/ \A cell \in Cells : Trim(Chars(CellAt(cell))) # <<>>

\* C14 as stated: a row set whose cells hold no comma, double quote or line
\* break is decoded from its encoding as the same rows with the same values.
C14_PlainRoundTrip ==
  Decoded /\ (\A cell \in Cells : Plain(CellAt(cell)))
    => pc = "parsed" /\ variants = allVariants

\* C14, amended: the same, for a row set whose cells have no white space at
\* either end and none of whose rows is written as a blank line.
C14_PlainTrimmedRoundTrip ==
  /\ Decoded
  /\ \A cell \in Cells : Plain(CellAt(cell)) /\ Trimmed(CellAt(cell))
  /\ NoBlankLine
  => pc = "parsed" /\ variants = allVariants

C14_Witness ==
  /\ pc = "parsed"
  /\ \A cell \in Cells : Plain(CellAt(cell)) /\ Trimmed(CellAt(cell))
  /\ Len(allVariants) >= 2
  /\ \E cell \in Cells : CellAt(cell) = ""
  /\ \E cell \in Cells : CellAt(cell) = "a"
  /\ variants = allVariants

\* A comma or a double quote, and no line break.
Special(value) ==
  /\ Includes(Chars(value), ",") \/ Includes(Chars(value), "\"")
  /\ ~Includes(Chars(value), "\n")

\* The value between quotes, its own quotes doubled.
Quoted(value) ==
  <<"\"">> \o ReplaceAll(Chars(value), "\"", <<"\"", "\"">>) \o <<"\"">>

\* The cell is written as a quoted field (seen in the row sets of one
\* column, where the field is the line) and is read back as it was, in a row
\* with a value for every header.
SurvivesQuoted(cell) ==
  /\ pc = "parsed"
  /\ Len(variants) = Len(allVariants)
  /\ Len(variants[cell[1]]) = Len(allVariants[cell[1]])
  /\ variants[cell[1]][cell[2]] = allVariants[cell[1]][cell[2]]
  /\ Len(allVariants[1]) = 1 /\ (\A other \in Cells : Special(CellAt(other)))
       => linesOf(output[1])[cell[1] + 1] = Quoted(CellAt(cell))

\* C15 as stated: every cell with commas or double quotes is written as a
\* quoted field with its quotes doubled and is read back as the same string,
\* in a row with as many fields as the header.
C15_QuotedRoundTrip ==
  Decoded => \A cell \in Cells : Special(CellAt(cell)) => SurvivesQuoted(cell)

\* C15, amended: the same, for a cell without white space at either end, in
\* a row set without line breaks in its cells and without a row written as
\* a blank line.
C15_QuotedTrimmedRoundTrip ==
  /\ Decoded
  /\ \A cell \in Cells : ~Includes(Chars(CellAt(cell)), "\n")
  /\ NoBlankLine
  => \A cell \in Cells :
       Special(CellAt(cell)) /\ Trimmed(CellAt(cell)) => SurvivesQuoted(cell)

C15_Witness ==
  /\ pc = "parsed"
  /\ \A cell \in Cells : ~Includes(Chars(CellAt(cell)), "\n")
  /\ NoBlankLine
  /\ \E cell \in Cells :
       /\ CellAt(cell) = "a,\"b\""
       /\ SurvivesQuoted(cell)
  /\ \E cell \in Cells :
       /\ CellAt(cell) = "\""
       /\ Len(allVariants[1]) = 1
       /\ SurvivesQuoted(cell)

\* ================================================== import from a file
\* import-variants.js from validateConfig on: the input file is tested for,
\* read and parsed, and its rows are processed.

\* The header line of the input file.
HeaderLine == "variant_id,variant_title,metafield_custom_popular"

\* The data lines a file may hold in place n: a value to import, a field
\* short, a field too many, a quoted field with a comma and no value to
\* import, nothing.
LineChoices(n) ==
  { "gid-" \o ToString(n) \o ",Frame,true",
    "gid-" \o ToString(n) \o ",Frame",
    "gid-" \o ToString(n) \o ",Frame,true,x",
    "gid-" \o ToString(n) \o ",\"Frame, oak\",",
    "" }

\* The texts of a header line and up to MaxRows data lines.
RECURSIVE TextsOf(_)
TextsOf(len) ==
  IF len = 0 THEN {HeaderLine}
  ELSE {text \o "\n" \o line : text \in TextsOf(len - 1), line \in LineChoices(len)}

\* The input files: none, an empty one, one of a header and data lines.
FileChoices ==
  {[exists |-> FALSE, content |-> ""], [exists |-> TRUE, content |-> ""]}
  \cup {[exists |-> TRUE, content |-> text] :
          text \in UNION {TextsOf(len) : len \in 0..MaxRows}}

\* An importVariants that takes a file parseCSV cannot parse for a file of
\* no rows.
ReadFile_NoRowsOnThrow ==
  /\ pc = "start"
  /\ LET parsed == parseCSV(input.content)
     IN IF ~input.exists
        THEN /\ pc' = "failed"
             /\ exitCode' = "1"
             /\ UNCHANGED << variants, console >>
        ELSE /\ pc' = "loop"
             /\ variants' = parsed.data
             /\ console' =
                  console \o
                  [n \in DOMAIN parsed.warned |->
                    [what |-> "warning",
                     variantId |-> "row " \o ToString(parsed.warned[n])]]
             /\ UNCHANGED exitCode
  /\ UNCHANGED << config, i, batch, pos, results, totalResults, requests,
                  sleeps, batches, prior, input, artifact, others >>

\* validateConfig finds the file or not (lines 89-92); importVariants reads
\* and parses it (lines 413-424, 474-477).  A missing file and an exception
\* of parseCSV end the process with 1; otherwise the warnings of parseCSV are
\* printed and the rows go to the batch loop.
ReadFile ==
  /\ pc = "start"
  /\ LET parsed == parseCSV(input.content)
     IN IF ~input.exists \/ parsed.threw
        THEN /\ pc' = "failed"
             /\ exitCode' = "1"
             /\ UNCHANGED << variants, console >>
        ELSE /\ pc' = "loop"
             /\ variants' = parsed.data
             /\ console' =
                  console \o
                  [n \in DOMAIN parsed.warned |->
                    [what |-> "warning",
                     variantId |-> "row " \o ToString(parsed.warned[n])]]
             /\ UNCHANGED exitCode
  /\ UNCHANGED << config, i, batch, pos, results, totalResults, requests,
                  sleeps, batches, prior, input, artifact, others >>

InitFile ==
  /\ config \in [dryRun : BOOLEAN, batchSize : {1, MaxBatchSize}]
  /\ input \in FileChoices
  /\ variants = <<>>
  /\ pc = "start"
  /\ i = 0
  /\ batch = <<>>
  /\ pos = 1
  /\ results = EmptyResults
  /\ totalResults = EmptyResults
  /\ requests = <<>>
  /\ sleeps = 0
  /\ batches = <<>>
  /\ console = <<>>
  /\ prior = NoRun
  /\ exitCode = "none"
  /\ artifact = <<>>
  /\ ExportIdle
  /\ CliIdle
  /\ ToolsIdle

NextFile ==
  \/ ReadFile
  \/ NextBatch
  \/ SkipVariant
  \/ DryRunUpdate
  \/ IssueLookup
  \/ LookupResponse
  \/ MutationResponse
  \/ EndBatch
  \/ Wake
  \/ Summary

SpecFile == InitFile /\ [][NextFile]_vars

\* ------------------------------------------ the claims: import from a file

\* The lines of the input file that are not blank; the first is the header.
FileLines == linesOf(input.content)

DataLines == 2..Len(FileLines)

\* The fields parseCSVLine reads from a data line, the variant id among them,
\* and whether they are as many as the header's fields.
FieldsOf(l) == parseCSVLine(FileLines[l])

IdOf(l) == Str(FieldsOf(l)[1])

WellFormed(l) == Len(FieldsOf(l)) = Len(Split(FileLines[1], ","))

\* The ids of the well-formed data lines, in file order.
WellFormedIds ==
  LET lines == SelectSeq([n \in 1..(Len(FileLines) - 1) |-> n + 1], WellFormed)
  IN [n \in DOMAIN lines |-> IdOf(lines[n])]

\* The import has ended, one way or the other.
ImportEnded == pc \in {"done", "failed"}

\* The file has a header and data lines, none of them with the header's
\* field count.
NoLineMatchesHeader ==
  /\ input.exists
  /\ DataLines # {}
  /\ \A l \in DataLines : ~WellFormed(l)

\* The run was ended with a non-zero exit code before any request, and no
\* results file was written.
Aborted ==
  /\ pc = "failed"
  /\ exitCode = "1"
  /\ requests = <<>>
  /\ artifact = <<>>

\* C19 as stated: a missing input file, and a header whose field count
\* matches no data line, end the run before any mutation with a non-zero
\* exit code and without a results file.
C19_FileLevelErrorsAbort ==
  ImportEnded /\ (~input.exists \/ NoLineMatchesHeader) => Aborted

\* C19, amended: a missing input file, and a file of fewer than two lines
\* that are not blank, end the run before any request with a non-zero exit
\* code and without a results file; a header whose field count matches no
\* data line does not: the run ends with exit code 0, without a request, and
\* writes a results file of no rows.
C19_MissingOrShortFileAborts ==
  /\ ImportEnded /\ (~input.exists \/ Len(FileLines) < 2) => Aborted
  /\ ImportEnded /\ NoLineMatchesHeader =>
       /\ pc = "done"
       /\ exitCode = "0"
       /\ requests = <<>>
       /\ artifact = <<EmptyResults>>

C19_Witness ==
  /\ Aborted
  /\ input.exists
  /\ Len(FileLines) = 1

\* C20: a data line whose parsed field count is not the header's makes no
\* row, is counted neither as success nor as failed nor as skipped and has no
\* detail entry, and the well-formed lines are all parsed and processed.
C20_MalformedLineDropped ==
  pc \notin {"start", "failed"} =>
    /\ Ids = WellFormedIds
    /\ \A l \in DataLines :
         ~WellFormed(l) =>
           /\ IdOf(l) \notin IdSet
           /\ IdOf(l) \notin DetailIds(totalResults.details)
           /\ \A n \in DOMAIN TakenUp : TakenUp[n] # IdOf(l)
    /\ pc = "done" =>
         /\ totalResults.success + totalResults.failed + totalResults.skipped
              = Len(WellFormedIds)
         /\ TakenUp = WellFormedIds

C20_Witness ==
  /\ pc = "done"
  /\ \E l \in DataLines :
       /\ ~WellFormed(l)
       /\ \E before \in DataLines :
            /\ before < l
            /\ WellFormed(before)
            /\ Len(Split(FileLines[before], ",")) # Len(FieldsOf(before))
            /\ IdOf(before) \in Said("skip")
       /\ \E after \in DataLines :
            /\ after > l
            /\ WellFormed(after)
            /\ IdOf(after) \in DetailIds(totalResults.details)
  /\ totalResults.success = 1
  /\ totalResults.skipped = 1

\* ====================================================== the command line
\* parseArgs, validateConfig and the start of the work in the three scripts:
\* export-variants.js, import-variants.js, update-product-templates.js.

\* The most arguments on a command line.
MaxArgs == 3

Commands == {"export", "import", "template"}

\* The words of a command line.  "product" is a shop's name, a token, the
\* name of a file and the name of a template.
Tokens == {"--shop", "--token", "--input", "--template", "--help", "product"}

\* SHOPIFY_SHOP and SHOPIFY_ACCESS_TOKEN: not set, or set.
EnvValues == {"undefined", "product"}

\* availableTemplates of update-product-templates.js.
availableTemplates ==
  { "product", "product.collect-in-store", "product.custom-mount",
    "product.framed-artwork", "product.nielsen-ready-made-frames" }

\* A value that is not "" and not undefined.
Truthy(x) == x \notin {"", "undefined"}

\* args[n], 1-based: undefined past the end.
Arg(args, n) == IF n \in DOMAIN args THEN args[n] ELSE "undefined"

\* The loop of parseArgs from argument n on: the config it leaves and the
\* exit code of --help, "none" when the loop ends.  --input is an option of
\* the import only, --template of the template update only; a word that is
\* no option of the command is passed over.
RECURSIVE parseArgs(_, _, _, _)
parseArgs(command, c, args, n) ==
  IF n > Len(args) THEN [config |-> c, exit |-> "none"]
  ELSE IF args[n] = "--shop"
  THEN parseArgs(command, [c EXCEPT !.shop = Arg(args, n + 1)], args, n + 2)
  ELSE IF args[n] = "--token"
  THEN parseArgs(command, [c EXCEPT !.token = Arg(args, n + 1)], args, n + 2)
  ELSE IF args[n] = "--input" /\ command = "import"
  THEN parseArgs(command, [c EXCEPT !.input = Arg(args, n + 1)], args, n + 2)
  ELSE IF args[n] = "--template" /\ command = "template"
  THEN parseArgs(command, [c EXCEPT !.template = Arg(args, n + 1)], args, n + 2)
  ELSE IF args[n] = "--help" THEN [config |-> c, exit |-> "0"]
  ELSE parseArgs(command, c, args, n + 1)

\* A validateConfig that does not ask for the token.
validateConfig_TokenOptional(command, c, fileExists) ==
  IF ~Truthy(c.shop) THEN "1"
  ELSE IF command = "import" /\ (~Truthy(c.input) \/ ~fileExists) THEN "1"
  ELSE IF command = "template"
          /\ (~Truthy(c.template) \/ c.template \notin availableTemplates)
  THEN "1"
  ELSE "none"

\* validateConfig of the three scripts: the exit code, "none" when it
\* returns.
validateConfig(command, c, fileExists) ==
  IF ~Truthy(c.shop) THEN "1"
  ELSE IF ~Truthy(c.token) THEN "1"
  ELSE IF command = "import" /\ (~Truthy(c.input) \/ ~fileExists) THEN "1"
  ELSE IF command = "template"
          /\ (~Truthy(c.template) \/ c.template \notin availableTemplates)
  THEN "1"
  ELSE "none"

\* The process starts: config takes the environment (process.env.X || ""),
\* parseArgs reads the arguments.
ParseArgs ==
  /\ cli.pc = "start"
  /\ LET parsed == parseArgs(cli.command, cli.config, cli.argv, 1)
     IN cli' = [cli EXCEPT !.config = parsed.config,
                           !.exitCode = parsed.exit,
                           !.read = parsed.exit = "none",
                           !.pc = IF parsed.exit = "none" THEN "parsed"
                                  ELSE "exited"]
  /\ UNCHANGED << importVars, fileVars, exportVars, toolVars >>

ValidateConfig ==
  /\ cli.pc = "parsed"
  /\ LET exit == validateConfig(cli.command, cli.config, cli.fileExists)
     IN cli' = [cli EXCEPT !.exitCode = exit,
                           !.pc = IF exit = "none" THEN "valid" ELSE "exited"]
  /\ UNCHANGED << importVars, fileVars, exportVars, toolVars >>

\* The command's work sends its first request: the definitions query of the
\* export, the first lookup of the import, the product query of the
\* template update.
FirstRequest ==
  /\ cli.pc = "valid"
  /\ cli' = [cli EXCEPT !.requests = @ + 1, !.pc = "running"]
  /\ UNCHANGED << importVars, fileVars, exportVars, toolVars >>

InitCli ==
  /\ \E command \in Commands, shopName \in EnvValues, token \in EnvValues,
        len \in 0..MaxArgs, fileExists \in BOOLEAN :
       \E argv \in [1..len -> Tokens] :
         /\ command # "import" => fileExists
         /\ cli = [pc |-> "start",
                   command |-> command,
                   env |-> [shop |-> shopName, token |-> token],
                   argv |-> argv,
                   fileExists |-> fileExists,
                   config |-> [shop |-> OrEmpty(shopName),
                               token |-> OrEmpty(token),
                               input |-> "",
                               template |-> ""],
                   read |-> FALSE,
                   exitCode |-> "none",
                   requests |-> 0]
  /\ ImportIdle
  /\ input = NoFile
  /\ exitCode = "none"
  /\ artifact = <<>>
  /\ ExportIdle
  /\ ToolsIdle

NextCli ==
  \/ ParseArgs
  \/ ValidateConfig
  \/ FirstRequest

SpecCli == InitCli /\ [][NextCli]_vars

\* ----------------------------------------------- the claims: command line

\* parseArgs has read every argument, and the shop name or the token is
\* undefined or empty.
CredentialAbsent ==
  /\ cli.read
  /\ ~Truthy(cli.config.shop) \/ ~Truthy(cli.config.token)

\* C18: in each of the three commands, a run that is left without a shop
\* name or without a token once the environment and the arguments are read
\* exits with a non-zero code before it has sent a request.
C18_CredentialsBeforeRequests ==
  /\ CredentialAbsent /\ cli.pc # "parsed" =>
       /\ cli.pc = "exited"
       /\ cli.exitCode = "1"
       /\ cli.requests = 0
  /\ cli.requests > 0 =>
       Truthy(cli.config.shop) /\ Truthy(cli.config.token)

C18_Witness ==
  /\ cli.pc = "exited"
  /\ cli.exitCode = "1"
  /\ cli.command = "template"
  /\ cli.env.token = "product"
  /\ Truthy(cli.config.shop)
  /\ cli.config.token = "undefined"
  /\ cli.config.template = "product"
  /\ cli.requests = 0

\* ------------------------------------------ the batch loop on any batch size

\* How far below zero the loop's index is followed.
MaxDescent == 3

\* A JavaScript number as the batch loop meets it: an integer, or the NaN
\* parseInt returns for a value that is not a number (line 47).
NaN == [nan |-> TRUE, n |-> 0]

Num(n) == [nan |-> FALSE, n |-> n]

\* a + b and a < b on these numbers: NaN makes the sum NaN and the
\* comparison false.
Plus(a, b) == IF a.nan \/ b.nan THEN NaN ELSE Num(a.n + b.n)

LessThan(a, b) == ~a.nan /\ ~b.nan /\ a.n < b.n

\* The integer Array.prototype.slice makes of an index: NaN becomes 0.
ToIntegerOrInfinity(a) == IF a.nan THEN 0 ELSE a.n

\* The loop's index as it is followed: an index below -MaxDescent is held at
\* -MaxDescent.  With a negative step every index below zero behaves alike:
\* the loop test holds and the slice is empty.
Followed(a) ==
  IF ~a.nan /\ a.n < -MaxDescent THEN Num(-MaxDescent) ELSE a

\* What parseArgs can store as config.batchSize (lines 24, 46-48): the
\* integer parseInt read, of either sign, or NaN; validateConfig (lines
\* 72-93) does not look at it.
BatchSizes == {NaN} \cup {Num(n) : n \in -1..MaxBatchSize}

\* The loop test and body up to the call of processBatch (lines 434-442) on
\* these numbers.  The slices are not recorded in this specification, nor the
\* pauses counted, so that a loop that repeats itself is a cycle of states.
NextBatchAny ==
  /\ pc = "loop"
  /\ LessThan(i, Num(Len(variants)))
  /\ batch' = Slice(variants, ToIntegerOrInfinity(i),
                    ToIntegerOrInfinity(Plus(i, config.batchSize)))
  /\ results' = EmptyResults
  /\ pos' = 1
  /\ pc' = "row"
  /\ UNCHANGED << config, variants, i, totalResults, requests, sleeps,
                  batches, console, prior, fileVars, others >>

\* processBatch returns (lines 407, 444-453) on these numbers.
EndBatchAny ==
  /\ pc = "row"
  /\ pos > Len(batch)
  /\ totalResults' =
       [success |-> totalResults.success + results.success,
        failed |-> totalResults.failed + results.failed,
        skipped |-> totalResults.skipped + results.skipped,
        details |-> totalResults.details \o results.details]
  /\ IF LessThan(Plus(i, config.batchSize), Num(Len(variants)))
        /\ ~config.dryRun
     THEN /\ pc' = "sleep"
          /\ i' = i
     ELSE /\ pc' = "loop"
          /\ i' = Followed(Plus(i, config.batchSize))
  /\ UNCHANGED << config, variants, batch, pos, results, requests, sleeps,
                  batches, console, prior, fileVars, others >>

\* The pause's timer fires (line 452), the loop steps (line 434).
WakeAny ==
  /\ pc = "sleep"
  /\ i' = Followed(Plus(i, config.batchSize))
  /\ pc' = "loop"
  /\ UNCHANGED << config, variants, batch, pos, results, totalResults,
                  requests, sleeps, batches, console, prior, fileVars, others >>

\* The loop ends (lines 434, 456-473).
SummaryAny ==
  /\ pc = "loop"
  /\ ~LessThan(i, Num(Len(variants)))
  /\ pc' = "done"
  /\ artifact' = <<totalResults>>
  /\ exitCode' = "0"
  /\ UNCHANGED << config, variants, i, batch, pos, results, totalResults,
                  requests, sleeps, batches, console, prior, input, others >>

\* The state once parseArgs, validateConfig and parseCSV have run (lines
\* 21-27, 43-48, 421-432), whatever --batch-size was given.
InitLoop ==
  /\ config \in [dryRun : BOOLEAN, batchSize : BatchSizes]
  /\ variants \in RowSeqs
  /\ pc = "loop"
  /\ i = Num(0)
  /\ batch = <<>>
  /\ pos = 1
  /\ results = EmptyResults
  /\ totalResults = EmptyResults
  /\ requests = <<>>
  /\ sleeps = 0
  /\ batches = <<>>
  /\ console = <<>>
  /\ prior = NoRun
  /\ input = NoFile
  /\ exitCode = "none"
  /\ artifact = <<>>
  /\ ExportIdle
  /\ CliIdle
  /\ ToolsIdle

NextLoop ==
  \/ NextBatchAny
  \/ SkipVariant
  \/ DryRunUpdate
  \/ IssueLookup
  \/ LookupResponse
  \/ MutationResponse
  \/ EndBatchAny
  \/ WakeAny
  \/ SummaryAny

\* processBatch goes on with the row at hand (lines 349-405): it leaves the
\* place it stands at, by handling the row or by the answer to the request it
\* awaits.  Every step of SkipVariant, DryRunUpdate, IssueLookup,
\* LookupResponse and MutationResponse is such a step, and one of them is
\* possible wherever this is.
RowStep ==
  /\ pc \in {"row", "awaitLookup", "awaitMutation"}
  /\ pc = "row" => pos <= Len(batch)
  /\ \E p \in {"row", "awaitLookup", "awaitMutation"}, q \in {pos, pos + 1} :
       /\ <<p, q>> # <<pc, pos>>
       /\ pc' = p
       /\ pos' = q

\* Every step of the run is taken in the end: the script's statements run
\* one after the other, every request is answered and the timer fires.
SpecLoop ==
  /\ InitLoop
  /\ [][NextLoop]_vars
  /\ WF_vars(NextBatchAny)
  /\ WF_<<pc, pos>>(RowStep)
  /\ WF_vars(EndBatchAny)
  /\ WF_vars(WakeAny)
  /\ WF_vars(SummaryAny)

\* ------------------------------------------------------ claims on the loop

\* C28: whatever batch size parseArgs stored, the batch loop ends and the
\* run reaches its summary.
C28_LoopTerminates == <>(pc = "done")

\* C21: a run that got past reading and parsing ends with exit code 0 and
\* its results file written, however many rows failed, dry run or not.
C21_AlwaysCompletes ==
  <>(exitCode = "0" /\ Len(artifact) = 1)

\* The rows counted in the totals.
CountedRows ==
  totalResults.success + totalResults.failed + totalResults.skipped

\* C27: at the end of the run success, failed and skipped add up to the
\* number of parsed rows.
C27_CountConservation ==
  pc = "done" => CountedRows = Len(variants)

\* ------------------------------------------- claims on the export's requests

\* The product queries among the export's requests.
ProductRequests ==
  {n \in DOMAIN xrequests : xrequests[n].op \in {"product", "products"}}

\* C23: a product query goes out only after the definitions query has gone
\* out and been answered; an export sends at most one product query, and an
\* export that has ended has sent exactly one.
C23_DefinitionsBeforeOneProductQuery ==
  /\ \A n \in ProductRequests :
       \E m \in 1..(n - 1) :
         xrequests[m].op = "definitions" /\ xrequests[m].answer # "pending"
  /\ Cardinality(ProductRequests) <= 1
  /\ ExportEnded => Cardinality(ProductRequests) = 1

\* An export of a shop with several products has ended with the CSV written.
C23_Witness ==
  /\ xpc = "done"
  /\ Len(shop.products) >= 2
  /\ ~xconfig.productId
  /\ Cardinality(ProductRequests) = 1

\* -------------------------------------------- claims on cells with newlines

\* C26: a cell with a line break in it, which arrayToCSV writes between
\* double quotes, is read back by parseCSV as one field of one row holding
\* the same value: the text is decoded into as many rows as were encoded,
\* and the cell's row has the cell's value under the cell's column.
C26_NewlineRoundTrip ==
  Decoded =>
    \A cell \in Cells :
      Includes(Chars(CellAt(cell)), "\n") =>
        /\ pc = "parsed"
        /\ Len(variants) = Len(allVariants)
        /\ Len(variants[cell[1]]) = Len(allVariants[cell[1]])
        /\ variants[cell[1]][cell[2]] = allVariants[cell[1]][cell[2]]

\* ------------------------------------------------- the results file's name

\* The longest --input name, in parts.
MaxNameParts == 3

\* The parts an --input name is made of.  validateConfig (lines 80-92) asks
\* only that the file exists, not for an extension.
NameParts == {Chars("a"), Chars(".csv"), Chars(".CSV"), Chars(".txt")}

RECURSIVE NamesOf(_)
NamesOf(len) ==
  IF len = 0 THEN {<<>>}
  ELSE {part \o name : part \in NameParts, name \in NamesOf(len - 1)}

InputNames == UNION {NamesOf(len) : len \in 1..MaxNameParts}

\* The name of the results file (line 471).
resultsFile(name) ==
  Replace(name, Chars(".csv"), Chars("-import-results.json"))

\* The state once parseArgs, validateConfig and parseCSV have run on a file
\* without data rows.
InitResultsFile ==
  /\ config \in [dryRun : BOOLEAN, batchSize : {1}]
  /\ variants = <<>>
  /\ pc = "loop"
  /\ i = 0
  /\ batch = <<>>
  /\ pos = 1
  /\ results = EmptyResults
  /\ totalResults = EmptyResults
  /\ requests = <<>>
  /\ sleeps = 0
  /\ batches = <<>>
  /\ console = <<>>
  /\ prior = NoRun
  /\ \E name \in InputNames :
       input = [exists |-> TRUE, content |-> "", name |-> name]
  /\ exitCode = "none"
  /\ artifact = <<>>
  /\ ExportIdle
  /\ CliIdle
  /\ ToolsIdle

\* The loop ends (lines 434, 456-473) and the results are written to the
\* file of that name: the file written is kept with its path.
WriteResults ==
  /\ pc = "loop"
  /\ ~(i < Len(variants))
  /\ pc' = "done"
  /\ artifact' = << [path |-> resultsFile(input.name),
                     content |-> totalResults] >>
  /\ exitCode' = "0"
  /\ UNCHANGED << config, variants, i, batch, pos, results, totalResults,
                  requests, sleeps, batches, console, prior, input, others >>

NextResultsFile == WriteResults

SpecResultsFile == InitResultsFile /\ [][NextResultsFile]_vars

\* C22: the results file is written under a path other than the input
\* file's, so the run does not write over its input.
C22_ResultsBesideInput ==
  \A n \in DOMAIN artifact : artifact[n].path # input.name

\* ------------------------------------------------ update-product-templates

\* The most products the filters of a run select.
MaxProducts == 2

\* The templateSuffix values of the shop's products: none (null, written ""
\* here: both are falsy in lines 417 and 436) or the suffix of a template.
SuffixChoices == {"", "custom-mount", "framed-artwork"}

\* The products the filters select, each with its id and templateSuffix.
ProductChoices ==
  UNION { [1..len -> SuffixChoices] : len \in 0..MaxProducts }

\* What the user may type at the prompt.
Replies == {"y", "Yes", "n", "no", ""}

\* A product's current template (lines 417-419, 436-438).
currentTemplate(product) ==
  IF product.templateSuffix # "" THEN "product." \o product.templateSuffix
  ELSE "product"

\* productsToUpdate without the filter: every product found.
productsToUpdate_All(products, template) == products

\* The products whose template is not the one to apply (lines 416-421).
productsToUpdate(products, template) ==
  SelectSeq(products, LAMBDA product : currentTemplate(product) # template)

\* The templateSuffix the mutation sends (lines 358-359), null written "".
suffixOf(template) ==
  IF template = "product" THEN ""
  ELSE Str(Replace(Chars(template), Chars("product."), <<>>))

\* The test of the reply (line 392): its lower-case form starts with y.
Affirmative(reply) ==
  Len(Chars(reply)) >= 1 /\ Chars(reply)[1] \in {"y", "Y"}

\* The update loop's state at its start.
Looping(products) ==
  [tpl EXCEPT !.pc = "update", !.productsToUpdate = products, !.i = 1]

\* GetProducts without the confirmation: the loop starts at once.
GetProducts_NoPrompt ==
  /\ tpl.pc = "start"
  /\ \E answer \in {"ok", "error"} :
       IF answer = "error"
       THEN tpl' = [tpl EXCEPT !.pc = "failed", !.exitCode = "1"]
       ELSE LET toUpdate == productsToUpdate(tpl.shop, tpl.config.template)
            IN IF toUpdate = <<>>
               THEN tpl' = [tpl EXCEPT !.pc = "done", !.exitCode = "0"]
               ELSE tpl' = Looping(toUpdate)
  /\ UNCHANGED << importVars, fileVars, exportVars, cliVars, titles, picker >>

\* updateProductTemplates up to its second await (lines 398-452): the
\* products are fetched (a failure is rethrown by getProducts and ends the
\* run with exit code 1), those to update are selected; with none the run
\* ends, otherwise a live run without --force shows the prompt and any other
\* run starts the loop.
GetProducts ==
  /\ tpl.pc = "start"
  /\ \E answer \in {"ok", "error"} :
       IF answer = "error"
       THEN tpl' = [tpl EXCEPT !.pc = "failed", !.exitCode = "1"]
       ELSE LET toUpdate == productsToUpdate(tpl.shop, tpl.config.template)
            IN IF toUpdate = <<>>
               THEN tpl' = [tpl EXCEPT !.pc = "done", !.exitCode = "0"]
               ELSE IF ~tpl.config.force /\ ~tpl.config.dryRun
               THEN tpl' = [tpl EXCEPT !.pc = "prompt",
                                       !.productsToUpdate = toUpdate,
                                       !.prompts = @ + 1]
               ELSE tpl' = Looping(toUpdate)
  /\ UNCHANGED << importVars, fileVars, exportVars, cliVars, titles, picker >>

\* The user replies to the prompt (lines 386-393, 449-452): the loop starts,
\* or the run ends with "Update cancelled.".
Reply ==
  /\ tpl.pc = "prompt"
  /\ \E reply \in Replies :
       tpl' = [tpl EXCEPT !.reply = <<reply>>,
                          !.pc = IF Affirmative(reply) THEN "update" ELSE "done",
                          !.i = 1,
                          !.exitCode = IF Affirmative(reply) THEN @ ELSE "0"]
  /\ UNCHANGED << importVars, fileVars, exportVars, cliVars, titles, picker >>

\* One turn of the update loop (lines 464-489, 340-380): a dry run counts
\* the product; a live run sends the productUpdate mutation for it and
\* awaits the answer.  The shop applies a mutation it accepts; userErrors
\* and failed requests are caught and counted.
UpdateProduct ==
  /\ tpl.pc = "update"
  /\ tpl.i <= Len(tpl.productsToUpdate)
  /\ LET product == tpl.productsToUpdate[tpl.i]
     IN IF tpl.config.dryRun
        THEN tpl' = [tpl EXCEPT !.i = @ + 1, !.results.success = @ + 1]
        ELSE \E answer \in {"ok", "userErrors", "error"} :
               LET sent == [id |-> product.id,
                            current |-> currentTemplate(product),
                            templateSuffix |-> suffixOf(tpl.config.template),
                            answer |-> answer]
               IN tpl' =
                    [tpl EXCEPT
                       !.i = @ + 1,
                       !.requests = Append(@, sent),
                       !.results.success = IF answer = "ok" THEN @ + 1 ELSE @,
                       !.results.failed = IF answer = "ok" THEN @ ELSE @ + 1,
                       !.shop =
                         IF answer = "ok"
                         THEN [n \in DOMAIN @ |->
                                 IF @[n].id = sent.id
                                 THEN [@[n] EXCEPT
                                         !.templateSuffix = sent.templateSuffix]
                                 ELSE @[n]]
                         ELSE @]
  /\ UNCHANGED << importVars, fileVars, exportVars, cliVars, titles, picker >>

\* The loop ends (lines 464, 491-510): the results are shown and the process,
\* with nothing left to do, ends.
ShowResults ==
  /\ tpl.pc = "update"
  /\ tpl.i > Len(tpl.productsToUpdate)
  /\ tpl' = [tpl EXCEPT !.pc = "done", !.exitCode = "0", !.shown = TRUE]
  /\ UNCHANGED << importVars, fileVars, exportVars, cliVars, titles, picker >>

\* A run of the script on a shop.
Started(cfg, products, run, first) ==
  [pc |-> "start",
   config |-> cfg,
   shop |-> products,
   productsToUpdate |-> <<>>,
   i |-> 1,
   prompts |-> 0,
   reply |-> <<>>,
   requests |-> <<>>,
   results |-> [success |-> 0, failed |-> 0],
   shown |-> FALSE,
   exitCode |-> "none",
   run |-> run,
   first |-> first]

\* The operator runs the script again at once, with the same arguments, on
\* the shop as the first run left it.  What the first run showed is kept.
RunAgain ==
  /\ tpl.pc \in {"done", "failed"}
  /\ tpl.run = 1
  /\ tpl' = Started(tpl.config, tpl.shop, 2,
                    [shown |-> tpl.shown,
                     failed |-> tpl.results.failed,
                     requests |-> Len(tpl.requests)])
  /\ UNCHANGED << importVars, fileVars, exportVars, cliVars, titles, picker >>

\* The state once parseArgs and validateConfig have run (lines 29-44,
\* 142-165): the template is one of availableTemplates.
InitTemplate ==
  /\ \E cfg \in [template : availableTemplates, dryRun : BOOLEAN,
                 force : BOOLEAN],
        suffixes \in ProductChoices :
       tpl = Started(cfg,
                     [n \in DOMAIN suffixes |->
                        [id |-> n, templateSuffix |-> suffixes[n]]],
                     1,
                     [shown |-> FALSE, failed |-> 0, requests |-> 0])
  /\ titles = [pc |-> "idle"]
  /\ picker = [pc |-> "idle"]
  /\ ImportIdle
  /\ input = NoFile
  /\ exitCode = "none"
  /\ artifact = <<>>
  /\ ExportIdle
  /\ CliIdle

NextTemplate ==
  \/ GetProducts
  \/ Reply
  \/ UpdateProduct
  \/ ShowResults
  \/ RunAgain

SpecTemplate == InitTemplate /\ [][NextTemplate]_vars

\* ------------------------------------------ claims on the template update

\* The reply given at the prompt is one a user means as a yes.
SaidYes == tpl.reply # <<>> /\ tpl.reply[1] \in {"y", "Yes"}

\* C24: a dry run sends no productUpdate mutation; a live run without
\* --force sends none unless the prompt was answered with a yes, and one
\* whose prompt was answered otherwise has ended without a mutation; a dry
\* run and a run with --force show no prompt.
C24_ConfirmationGuardsMutations ==
  /\ tpl.config.dryRun => tpl.requests = <<>>
  /\ ~tpl.config.dryRun /\ ~tpl.config.force /\ tpl.requests # <<>>
       => SaidYes
  /\ tpl.reply # <<>> /\ ~SaidYes
       => tpl.requests = <<>> /\ tpl.pc = "done" /\ ~tpl.shown
  /\ tpl.config.dryRun \/ tpl.config.force => tpl.prompts = 0

\* A live run without --force has updated two products after a yes.
C24_Witness ==
  /\ tpl.run = 1
  /\ tpl.pc = "done"
  /\ ~tpl.config.dryRun /\ ~tpl.config.force
  /\ tpl.prompts = 1
  /\ SaidYes
  /\ Len(tpl.requests) = 2

\* C29: a productUpdate mutation is sent only for a product whose current
\* template is not the target template; and after a first run that went
\* through its update loop without a failure, the second run sends none.
C29_TemplateIdempotence ==
  /\ \A n \in DOMAIN tpl.requests :
       tpl.requests[n].current # tpl.config.template
  /\ tpl.run = 2 /\ tpl.first.shown /\ tpl.first.failed = 0
       => tpl.requests = <<>>

\* The second run has ended after a first run that updated two products.
C29_Witness ==
  /\ tpl.run = 2
  /\ tpl.pc = "done"
  /\ tpl.first.shown
  /\ tpl.first.failed = 0
  /\ tpl.first.requests = 2
  /\ tpl.requests = <<>>

\* --------------------------------------------------- process-variant-titles

\* The longest variant_title of a row.
MaxTitleLen == 4

\* The characters of a variant_title: a letter, a space, the R a SKU starts
\* with and a digit.
TitleChars == {"a", " ", "R", "1"}

\* R[A-Z0-9]+ of the pattern of hasTitleAndSku, on these characters.
IsSku(s) ==
  /\ Len(s) >= 2
  /\ s[1] = "R"
  /\ \A n \in 2..Len(s) : s[n] \in {"R", "1"}

\* hasTitleAndSku (lines 402-410): the match of /^(.+?)\s+(R[A-Z0-9]+)$/.
\* The SKU is what follows the last space; the title is the shortest start
\* of the text that only spaces part from the SKU, and is trimmed.
hasTitleAndSku(variantTitle) ==
  LET len == Len(variantTitle)
      ends == {k \in 1..(len - 1) :
                 \E m \in (k + 1)..(len - 1) :
                   /\ \A n \in (k + 1)..m : variantTitle[n] = " "
                   /\ IsSku(SubSeq(variantTitle, m + 1, len))}
      k == CHOOSE e \in ends : \A other \in ends : e <= other
      m == CHOOSE n \in (k + 1)..(len - 1) :
             /\ \A x \in (k + 1)..n : variantTitle[x] = " "
             /\ IsSku(SubSeq(variantTitle, n + 1, len))
  IN IF ends = {} THEN [matched |-> FALSE, title |-> <<>>, sku |-> <<>>]
     ELSE [matched |-> TRUE,
           title |-> Trim(SubSeq(variantTitle, 1, k)),
           sku |-> SubSeq(variantTitle, m + 1, len)]

\* processRow (lines 413-452): the row it returns.
processRow(row) ==
  LET titleSkuMatch == hasTitleAndSku(row.variant_title)
  IN IF titleSkuMatch.matched
     THEN [row EXCEPT !.metafield_custom_nielsen_sku = titleSkuMatch.sku,
                      !.metafield_custom_variant_label = titleSkuMatch.title]
     ELSE [row EXCEPT !.metafield_custom_variant_label = row.variant_title]

\* A row of the file, with its title and what its two metafield columns
\* hold.
InitTitles ==
  /\ \E len \in 0..MaxTitleLen, sku \in {<<>>, <<"R", "1">>},
        label \in {<<>>, <<"a">>} :
       \E title \in [1..len -> TitleChars] :
         titles = [pc |-> "row",
                   row |-> [variant_title |-> title,
                            metafield_custom_nielsen_sku |-> sku,
                            metafield_custom_variant_label |-> label],
                   result |-> <<>>]
  /\ tpl = [pc |-> "idle"]
  /\ picker = [pc |-> "idle"]
  /\ ImportIdle
  /\ input = NoFile
  /\ exitCode = "none"
  /\ artifact = <<>>
  /\ ExportIdle
  /\ CliIdle

\* The loop of processVariantTitles calls processRow on the row (lines
\* 476-491).
ProcessRow ==
  /\ titles.pc = "row"
  /\ titles' = [titles EXCEPT !.pc = "processed",
                              !.result = <<processRow(titles.row)>>]
  /\ UNCHANGED << importVars, fileVars, exportVars, cliVars, tpl, picker >>

NextTitles == ProcessRow

SpecTitles == InitTitles /\ [][NextTitles]_vars

\* C25: for a row whose variant_title is a title and a SKU, processRow
\* returns a row with the title part as variant_title, the SKU as
\* metafield_custom_nielsen_sku and the title part as
\* metafield_custom_variant_label.
C25_TitleSplit ==
  titles.pc = "processed" /\ hasTitleAndSku(titles.row.variant_title).matched
    => LET parts == hasTitleAndSku(titles.row.variant_title)
           result == titles.result[1]
       IN /\ result.variant_title = parts.title
          /\ result.metafield_custom_nielsen_sku = parts.sku
          /\ result.metafield_custom_variant_label = parts.title

\* ------------------------------------------------------ NielsenVariantPicker

\* The most size buttons of a picker.
MaxButtons == 3

\* selectVariant (lines 861-891, 893-931, 933-963) on the button at place
\* n: the selected class is moved to it; then its variant is looked up in
\* variantsData, and only when it is found are the display and, if the page
\* has a product form, the form's id input updated.
selectVariant(p, n) ==
  LET moved ==
        [p EXCEPT !.buttons =
           [m \in DOMAIN @ |-> [@[m] EXCEPT !.selected = (m = n)]]]
      id == p.buttons[n].variantId
  IN IF id \notin p.variantsData THEN moved
     ELSE IF ~p.productForm THEN [moved EXCEPT !.selectedTitle = id]
     ELSE [moved EXCEPT !.selectedTitle = id, !.idInput = id]

\* The first of some places in document order.
First(places) == CHOOSE n \in places : \A m \in places : n <= m

\* new NielsenVariantPicker(container) (lines 797-850, 1102-1118): init
\* binds the click handlers and updateDisplay selects the button the page
\* was rendered with as selected, or else the first button not disabled.
Construct ==
  /\ picker.pc = "loaded"
  /\ LET selected == {n \in DOMAIN picker.buttons : picker.buttons[n].selected}
         available ==
           {n \in DOMAIN picker.buttons : ~picker.buttons[n].disabled}
         bound == [picker EXCEPT !.pc = "ready"]
     IN picker' = IF selected # {} THEN selectVariant(bound, First(selected))
                  ELSE IF available # {}
                  THEN selectVariant(bound, First(available))
                  ELSE bound
  /\ UNCHANGED << importVars, fileVars, exportVars, cliVars, tpl, titles >>

\* A click on a size button (lines 852-859); a disabled button gets no
\* click.
Click ==
  /\ picker.pc = "ready"
  /\ \E n \in DOMAIN picker.buttons :
       /\ ~picker.buttons[n].disabled
       /\ picker' = [selectVariant(picker, n) EXCEPT !.clicked = TRUE]
  /\ UNCHANGED << importVars, fileVars, exportVars, cliVars, tpl, titles >>

\* The page as rendered: up to MaxButtons size buttons, one per variant, at
\* most one of them with the selected class; the variants of the
\* variant-selects element's JSON (none without the element); a product
\* form or none, its id input holding the variant the page was rendered for.
InitPicker ==
  /\ \E len \in 0..MaxButtons, productForm \in BOOLEAN :
       \E disabled \in [1..len -> BOOLEAN], selected \in 0..len,
          variantsData \in SUBSET (1..len), rendered \in 0..Min(len, 1) :
         picker = [pc |-> "loaded",
                   buttons |-> [n \in 1..len |->
                                  [variantId |-> n,
                                   disabled |-> disabled[n],
                                   selected |-> n = selected]],
                   variantsData |-> variantsData,
                   productForm |-> productForm,
                   idInput |-> IF productForm THEN rendered ELSE 0,
                   selectedTitle |-> 0,
                   clicked |-> FALSE]
  /\ tpl = [pc |-> "idle"]
  /\ titles = [pc |-> "idle"]
  /\ ImportIdle
  /\ input = NoFile
  /\ exitCode = "none"
  /\ artifact = <<>>
  /\ ExportIdle
  /\ CliIdle

NextPicker ==
  \/ Construct
  \/ Click

SpecPicker == InitPicker /\ [][NextPicker]_vars

\* C30: on a page with a product form, once a size button was clicked, at
\* most one size button carries the selected class and the form's id input
\* holds the variant id of the button that carries it.
C30_SelectedMatchesForm ==
  picker.pc = "ready" /\ picker.clicked /\ picker.productForm =>
    LET selected == {n \in DOMAIN picker.buttons : picker.buttons[n].selected}
    IN /\ Cardinality(selected) <= 1
       /\ \A n \in selected : picker.idInput = picker.buttons[n].variantId

====
